---- MODULE Spec2Model ----
(***************************************************************************)
(* State-machine model of the securegrade submission-grading core:         *)
(*   - the submit handler (endpoints/student.rs handle_submission) and the *)
(*     grading state store it uses (database/assignment.rs),               *)
(*   - the scheduler: dispatcher, semaphore, channel and detached workers  *)
(*     (container.rs container_queue / run_container),                     *)
(*   - the session / credential store (database/user.rs, database/auth.rs, *)
(*     database/auth/validate.rs).                                         *)
(* Every database call of the code is its own transaction, so it is one    *)
(* atomic step here; a handler may be interleaved with other tasks between *)
(* two awaits.  login_user keeps one transaction open over several         *)
(* statements and is modelled statement by statement under PostgreSQL's    *)
(* default READ COMMITTED isolation.                                       *)
(***************************************************************************)
EXTENDS Integers, Sequences, FiniteSets, TLC

\* ------------------------------------------------------------------ bounds
\* Number of submit requests the clients send.
MaxRequests == 2
\* Number of login / sign-up requests the clients send.
MaxLogins == 2
\* Last instant of the modelled clock.
MaxTime == 3
\* connections sending requests through the role layers
MaxGates == 1
\* Last value the identity sequence of tasks.id hands out.
MaxTaskSeq == 3
\* Largest number of tests of a task whose score is aggregated.
MaxTests == 2
\* Largest number of tests of a task whose result records are built.
MaxExecTests == 2
\* Number of download_submission calls of one run.
MaxDownloads == 2
\* Largest free capacity left in the channel when the queue check starts.
MaxQueue == 1
\* i32::MAX, the capacity main gives the channel.
I32Max == 2147483647

\* ------------------------------------------------------- program constants
\* Semaphore::const_new(20)
DefaultPermits == 20
\* chrono::TimeDelta::hours(1), in clock ticks
OneHour == 2

\* HTTP status codes used by the handlers
StatusOk == 200
StatusBadRequest == 400
StatusUnauthorized == 401
StatusForbidden == 403
StatusNotFound == 404
StatusTooEarly == 425
StatusInternal == 500

\* ------------------------------------------------------------ option type
\* Option<T> / a nullable SQL column: <<>> is None / NULL, <<x>> is Some(x).
None == <<>>
Some(x) == <<x>>
IsSome(o) == o # <<>>
Unwrap(o) == o[1]

\* --------------------------------------------------------------- universe
Requests == 1..MaxRequests
\* users.id of the users registered when the run starts.
UserIds == {1, 2, 3}
\* classes.class_number
Classes == {"cs1"}
\* user_name values and passwords (byte strings, as sequences of characters).
NameAb == <<"a", "b">>
NameAd == <<"a", "d">>
NameIn == <<"i", "n">>
NameCd == <<"c", "d">>
PassP == <<"p">>
\* A user name and an empty password that hash as NameAb with PassP does.
NameApb == <<"a", "p", "b">>
PassEmpty == <<>>
PassQ == <<"q">>
TaskIds == {1, 2}
AssignmentIds == {1}
\* Directories present under dockerfiles/ (get_container_for_language).
Dockerfiles == {"python"}
\* Values of the Language request header; None is a missing header.
LanguageHeaders == {Some("python"), Some("cobol"), None}
\* A usize (64 bits) kept as <<hi, lo>> = hi * 2^31 + lo with 0 <= lo < 2^31;
\* Usize(k) is the usize of a k below 2^31.
Usize(k) == <<0, k>>
\* Values of the NTHREADS environment variable after parsing.
NThreadsEnv == {None, Some(Usize(0)), Some(Usize(1))}
\* Values of NTHREADS below and above the default, and beyond the range of
\* i32: 2^32 - 1 and 2^32 + 5.
NThreadsWide == {None, Some(Usize(0)), Some(Usize(19)), Some(Usize(21)),
                 Some(<<1, 2147483647>>), Some(<<2, 5>>)}
\* Users that hold a session when the run starts.
LoggedIn == {1}
\* Instants at which the submissions of one run are made.
SubmitTimes == {0, 1}
\* The assignments rows before the run: the deadline of each.
InitDeadline == [a \in AssignmentIds |-> 1]
\* The tasks rows before the run, each with the number of its tests rows; a
\* task added with an empty test list has none.
InitTasks == {[id |-> 1, assignment_id |-> 1, n_tests |-> 1],
              [id |-> 2, assignment_id |-> 1, n_tests |-> 0]}

\* ------------------------------------------------- tokens and their hashes
\* An encoding that does not decode to the bytes it was given.
Base64EncodeOther(b) == <<"b64", b + 1>>
\* BASE64_STANDARD.encode / decode of the 16 random bytes `b`.
Base64Encode(b) == <<"b64", b>>
Base64Decode(tok) == tok[2]
\* Sha512::digest: injective on the modelled values, never the identity.
Sha512(b) == <<"sha512", b>>

VARIABLES
    now,              \* chrono::Utc::now()
    users,            \* table users
    user_auth,        \* table user_auth
    user_session,     \* table user_session
    user_task_grade,  \* table user_task_grade
    req,              \* the submit requests (handle_submission tasks)
    queue,            \* the mpsc channel of ContainerEntry
    permits,          \* SEMAPHORE.available_permits()
    n_threads,        \* NTHREADS, parsed
    dispatcher,       \* the container_queue task
    worker,           \* the detached workers, by the request that enqueued the job
    sent,             \* history: jobs in the order they were sent on the channel
    spawned,          \* history: jobs in the order their workers were spawned
    user_class,       \* table user_class
    login,            \* the login / sign-up requests (login_user tasks)
    rng,              \* number of 16-byte draws rand::fill has made
    issued,           \* history: the sessions handed out, in commit order
    classes,          \* table classes
    gate,             \* the requests travelling through the role layers
    assignments,      \* table assignments: the deadline of each assignment
    tasks,            \* table tasks, each row with the number of its tests
    task_seq,         \* the identity sequence of tasks.id
    score_out,        \* what the last get_assignment_score call came to
    assignment_class, \* table assignment_class
    scores_out,       \* what the last get_assignment_scores call came to
    exec_in,          \* the tests and sandbox outputs of a run_container call
    exec_out,         \* the SubmissionResponse that call built
    chan_cap,         \* the capacity the mpsc channel was created with
    sandbox,          \* a run of the tests of one image: Image::exec per test
    download,         \* the download_submission calls
    fs,               \* the directories under /tmp/securegrade/download
    poll              \* a retrieve_task_score call

execVars == <<exec_in, exec_out>>
hostVars == <<sandbox, download, fs, poll>>
readVars == <<assignment_class, scores_out, execVars, chan_cap, hostVars>>
courseVars == <<assignments, tasks, task_seq, score_out, readVars>>
schedVars == <<user_task_grade, req, queue, permits, n_threads, dispatcher, worker,
               sent, spawned, courseVars>>
gateVars == <<classes, gate>>
authVars == <<users, user_auth, user_session, user_class, login, rng, issued, gateVars>>
vars == <<now, schedVars, authVars>>

\* ------------------------------------------------------ grading state store

\* user_id of the session row of `token` (database/user.rs get_user_from_session);
\* the code unwraps fetch_one, so the caller needs an existing row.
SessionRowsOf(token) ==
    {s \in user_session : s.session_hash = Sha512(Base64Decode(token))}
get_user_from_session(token) ==
    (CHOOSE s \in SessionRowsOf(token) : TRUE).user_id

\* SELECT * FROM user_task_grade WHERE user_id = $1 AND task_id = $2 AND grade IS NULL
submission_in_progress(user_id, task_id) ==
    \E g \in user_task_grade :
        g.user_id = user_id /\ g.task_id = task_id /\ g.grade = None

\* DELETE FROM user_task_grade WHERE user_id = $1 AND task_id = $2
remove_old_grade(table, user_id, task_id) ==
    {g \in table : ~(g.user_id = user_id /\ g.task_id = task_id)}

\* Late only strictly after the deadline.
WasLateStrict(submission_time, deadline) == submission_time > deadline

\* was_late = submission_time >= deadline
WasLate(submission_time, deadline) == submission_time >= deadline

\* The row INSERTed by mark_as_submitted: every result column NULL.
NewGradeRow(user_id, assignment_id, task_id, was_late, zip_file) ==
    [user_id |-> user_id, task_id |-> task_id, assignment_id |-> assignment_id,
     json_results |-> None, submission_zip |-> zip_file, grade |-> None,
     error |-> None, was_late |-> was_late]

\* A table without the primary key.
NoPrimaryKey(table, user_id, task_id) == FALSE

\* CONSTRAINT user_task_id_pkey PRIMARY KEY (user_id, task_id)
PkConflict(table, user_id, task_id) ==
    \E g \in table : g.user_id = user_id /\ g.task_id = task_id

\* An upsert: the result is inserted when the pair has no row.
container_upsert_task_grade(table, user_id, task_id, results, grade) ==
    IF \E g \in table : g.user_id = user_id /\ g.task_id = task_id
      THEN {IF g.user_id = user_id /\ g.task_id = task_id
               THEN [g EXCEPT !.json_results = Some(results), !.grade = Some(grade)]
               ELSE g : g \in table}
      ELSE table \cup {[NewGradeRow(user_id, 0, task_id, FALSE, 0) EXCEPT
                          !.json_results = Some(results), !.grade = Some(grade)]}

\* UPDATE user_task_grade SET json_results = $1, grade = $2
\*   WHERE user_id = $3 AND task_id = $4
container_add_task_grade(table, user_id, task_id, results, grade) ==
    {IF g.user_id = user_id /\ g.task_id = task_id
        THEN [g EXCEPT !.json_results = Some(results), !.grade = Some(grade)]
        ELSE g : g \in table}

\* ----------------------------------------------------------- submit handler

IdleReq == [pc |-> "idle", user_id |-> 0, assignment_id |-> 0, task_id |-> 0,
            lang |-> None, submission_time |-> 0, was_late |-> FALSE,
            status |-> None]

\* ContainerEntry::new(zip_file, user_id, task_id, was_late, lang); the archive
\* of request r is identified by r.
ContainerEntry(r) ==
    [zip_file |-> r, user_id |-> req[r].user_id, task_id |-> req[r].task_id,
     was_late |-> req[r].was_late, lang |-> Unwrap(req[r].lang)]

\* Every answer carries 425, whatever the handler did.
RespondTooEarly(r, code) ==
    [req EXCEPT ![r].pc = "done", ![r].status = Some(StatusTooEarly)]

Respond(r, code) == [req EXCEPT ![r].pc = "done", ![r].status = Some(code)]

\* The task id handle_submission passes to submission_in_progress: the
\* assignment_id path parameter (student.rs line 83).
InProgressKey(r) == req[r].assignment_id

\* handle_submission up to get_user_from_session: the time is captured first,
\* the path is split, the Language header is read (400 when absent) and the
\* user is looked up.  The student layer upstream has admitted the token.
SubmitStart(r) ==
    /\ req[r].pc = "idle"
    /\ \E token \in {Base64Encode(u) : u \in UserIds}, a \in AssignmentIds,
          t \in TaskIds, lang \in LanguageHeaders :
        /\ SessionRowsOf(token) # {}
        /\ IF lang = None
             THEN req' = [req EXCEPT ![r] =
                            [IdleReq EXCEPT !.pc = "done",
                                            !.submission_time = now,
                                            !.assignment_id = a, !.task_id = t,
                                            !.status = Some(StatusBadRequest)]]
             ELSE req' = [req EXCEPT ![r] =
                            [IdleReq EXCEPT !.pc = "check",
                                            !.submission_time = now,
                                            !.assignment_id = a, !.task_id = t,
                                            !.lang = lang,
                                            !.user_id = get_user_from_session(token)]]
    /\ UNCHANGED <<now, authVars, courseVars, user_task_grade, queue, permits, n_threads,
                   dispatcher, worker, sent, spawned>>

\* if submission_in_progress(user_id, assignment_id) { return 425 }
SubmitCheck(r) ==
    /\ req[r].pc = "check"
    /\ IF submission_in_progress(req[r].user_id, InProgressKey(r))
         THEN req' = Respond(r, StatusTooEarly)
         ELSE req' = [req EXCEPT ![r].pc = "remove"]
    /\ UNCHANGED <<now, authVars, courseVars, user_task_grade, queue, permits, n_threads,
                   dispatcher, worker, sent, spawned>>

\* remove_old_grade(user_id, task_id), a transaction of its own
SubmitRemove(r) ==
    /\ req[r].pc = "remove"
    /\ user_task_grade' = remove_old_grade(user_task_grade, req[r].user_id, req[r].task_id)
    /\ req' = [req EXCEPT ![r].pc = "mark"]
    /\ UNCHANGED <<now, authVars, courseVars, queue, permits, n_threads, dispatcher, worker,
                   sent, spawned>>

\* user_task_grade.task_id REFERENCES tasks(id): the INSERT needs the task row.
FkTaskMissing(task_id) == ~\E t \in tasks : t.id = task_id

\* mark_as_submitted(user_id, assignment_id, task_id, submission_time, zip):
\* reads the deadline, INSERTs the row; a primary-key conflict or a missing
\* task is Err -> 500.
SubmitMark(r) ==
    /\ req[r].pc = "mark"
    /\ LET deadline == assignments[req[r].assignment_id]
           was_late == WasLate(req[r].submission_time, deadline)
       IN IF \/ PkConflict(user_task_grade, req[r].user_id, req[r].task_id)
             \/ FkTaskMissing(req[r].task_id)
            THEN /\ req' = Respond(r, StatusInternal)
                 /\ UNCHANGED user_task_grade
            ELSE /\ user_task_grade' = user_task_grade \cup
                        {NewGradeRow(req[r].user_id, req[r].assignment_id,
                                     req[r].task_id, was_late, r)}
                 /\ req' = [req EXCEPT ![r].pc = "enqueue", ![r].was_late = was_late]
    /\ UNCHANGED <<now, authVars, courseVars, queue, permits, n_threads, dispatcher,
                   worker, sent, spawned>>

\* tx.reserve().await, perm.send(container_entry), 200.  reserve waits until
\* the channel has capacity and fails only on a closed channel; the receiver
\* lives in container_queue, which never returns.
SubmitEnqueue(r) ==
    /\ req[r].pc = "enqueue"
    /\ Len(queue) < chan_cap
    /\ queue' = Append(queue, ContainerEntry(r))
    /\ sent' = Append(sent, r)
    /\ req' = Respond(r, StatusOk)
    /\ UNCHANGED <<now, authVars, courseVars, user_task_grade, permits, n_threads, dispatcher,
                   worker, spawned>>

\* The client closes the connection while the handler is suspended at an await:
\* the handler future is dropped where it stands and nothing more of it runs.
ClientCancel(r) ==
    /\ req[r].pc \in {"check", "remove", "mark", "enqueue"}
    /\ req' = [req EXCEPT ![r].pc = "cancelled"]
    /\ UNCHANGED <<now, authVars, courseVars, user_task_grade, queue, permits, n_threads,
                   dispatcher, worker, sent, spawned>>

\* ---------------------------------------------------------------- scheduler

\* The capacity NTHREADS configures (20 when unset or unparsable).
Capacity == IF n_threads = None THEN DefaultPermits ELSE Unwrap(n_threads)[2]

\* `n as i32`: the low 32 bits of the usize, read as two's complement.
UsizeAsI32(n) == IF n[1] % 2 = 1 THEN (n[2] - I32Max) - 1 ELSE n[2]

\* Semaphore::forget_permits(k): takes away at most the permits available.
forget_permits(cur_n, k) == IF k > cur_n THEN 0 ELSE cur_n - k

\* container_queue lines 51-60: diff = n as i32 - cur_n as i32; permits are
\* forgotten or added by the difference.  (The values of NTHREADS drawn keep
\* the subtraction and the negation within i32.)
AdjustPermits(cur_n, n) ==
    LET diff == UsizeAsI32(n) - cur_n
    IN IF diff < 0 THEN forget_permits(cur_n, 0 - diff)
       ELSE IF diff > 0 THEN cur_n + diff
       ELSE cur_n

QueueStartup ==
    /\ dispatcher.pc = "init"
    /\ permits' = IF n_threads = None THEN permits
                  ELSE AdjustPermits(permits, Unwrap(n_threads))
    /\ dispatcher' = [dispatcher EXCEPT !.pc = "acquire"]
    /\ UNCHANGED <<now, authVars, courseVars, user_task_grade, req, queue, n_threads, worker,
                   sent, spawned>>

\* SEMAPHORE.acquire().await
DispatcherAcquire ==
    /\ dispatcher.pc = "acquire"
    /\ permits > 0
    /\ permits' = permits - 1
    /\ dispatcher' = [pc |-> "recv", perm |-> TRUE]
    /\ UNCHANGED <<now, authVars, courseVars, user_task_grade, req, queue, n_threads, worker,
                   sent, spawned>>

\* (mutant) the channel hands out its newest message.
RecvNewest(q) == Len(q)
\* The entry rx.recv() hands out: the oldest message of the channel.
RecvIndex(q) == 1

RemoveAt(q, i) == SubSeq(q, 1, i - 1) \o SubSeq(q, i + 1, Len(q))

\* rx.recv().await and tokio::spawn: the permit moves into the worker.
DispatcherSpawn ==
    /\ dispatcher.pc = "recv"
    /\ queue # <<>>
    /\ LET i == RecvIndex(queue)
           container == queue[i]
           j == container.zip_file
       IN /\ queue' = RemoveAt(queue, i)
          /\ worker' = [worker EXCEPT ![j] =
                          [pc |-> "run", perm |-> dispatcher.perm,
                           container |-> Some(container), results |-> None,
                           outcome |-> "none"]]
          /\ spawned' = Append(spawned, j)
    /\ dispatcher' = [pc |-> "acquire", perm |-> FALSE]
    /\ UNCHANGED <<now, authVars, courseVars, user_task_grade, req, permits, n_threads, sent>>

\* format!("/tmp/securegrade/{}-{}", user_id, task_id): the directory
\* run_container deletes, recreates and builds the image in.
Workdir(container) == <<container.user_id, container.task_id>>

\* get_container_for_language(&lang)
get_container_for_language(lang) == lang \in Dockerfiles

\* What becomes of the worker's permit when run_container returns Err
\* (container.rs line 72: drop(perm)).
PermitsAfterErr(p) == p + 1
\* (mutant) the permit is forgotten instead of released.
PermitLeaked(p) == p
\* What becomes of it when the worker task unwinds from a panic: the future is
\* dropped and the SemaphorePermit with it.
PermitsAfterPanic(p) == p + 1
\* container.rs line 79: drop(perm) on the success path.
PermitsAfterOk(p) == p + 1

\* run_container returns Err("Language not supported"): the worker drops the
\* permit, logs and returns; nothing is written to the row.
WorkerErr(j) ==
    /\ worker[j].pc = "run"
    /\ ~get_container_for_language(Unwrap(worker[j].container).lang)
    /\ permits' = PermitsAfterErr(permits)
    /\ worker' = [worker EXCEPT ![j].pc = "ended", ![j].perm = FALSE,
                                ![j].outcome = "err"]
    /\ UNCHANGED <<now, authVars, courseVars, user_task_grade, req, queue, n_threads,
                   dispatcher, sent, spawned>>

\* An unwrap inside run_container fails (workspace I/O, unzip, assignment.toml,
\* ImageBuilder::build): the worker task panics, tokio drops its future.
WorkerPanic(j) ==
    /\ worker[j].pc = "run"
    /\ get_container_for_language(Unwrap(worker[j].container).lang)
    /\ permits' = PermitsAfterPanic(permits)
    /\ worker' = [worker EXCEPT ![j].pc = "ended", ![j].perm = FALSE,
                                ![j].outcome = "panic"]
    /\ UNCHANGED <<now, authVars, courseVars, user_task_grade, req, queue, n_threads,
                   dispatcher, sent, spawned>>

\* SubmissionResponse::score(): passes / tests.len(), kept as the pair.
\* SELECT * FROM tests WHERE task_id = $1: the tests of the task, none when
\* the task row is gone.
container_get_task_details(task_id) ==
    LET rows == {t \in tasks : t.id = task_id}
    IN IF rows = {} THEN 0 ELSE (CHOOSE t \in rows : TRUE).n_tests

\* What one test run can come to in run_container's loop.
ExecOutcomes == {"pass", "fail", "timeout", "err"}

\* The status string SubmissionResponse records for an outcome.
StatusOf(outcome, was_late) ==
    CASE outcome = "pass" -> IF was_late THEN "LATE" ELSE "PASS"
      [] outcome = "fail" -> "FAIL"
      [] outcome = "timeout" -> "TIMED OUT"
      [] outcome = "err" -> "ERR"

\* run_container's loop: one push per test, passes += 1 on pass / pub_pass.
RunTests(outs, was_late) ==
    [tests |-> [i \in 1..Len(outs) |-> StatusOf(outs[i], was_late)],
     passes |-> Cardinality({i \in 1..Len(outs) : outs[i] = "pass"})]

\* SubmissionResponse::score: passes as f32 / tests.len() as f32, kept as the
\* pair <<numerator, denominator>>; <<0, 0>> is the NaN of 0.0 / 0.0.
Score(results) == <<results.passes, Len(results.tests)>>

\* run_container returns Ok(results); the worker drops the permit (line 79)
\* and goes on to serialize and persist.
WorkerRunOk(j) ==
    /\ worker[j].pc = "run"
    /\ get_container_for_language(Unwrap(worker[j].container).lang)
    /\ LET c == Unwrap(worker[j].container)
           n == container_get_task_details(c.task_id)
       IN \E outs \in [1..n -> ExecOutcomes] :
            worker' = [worker EXCEPT
                         ![j].pc = "persist", ![j].perm = FALSE,
                         ![j].results = Some(RunTests(outs, c.was_late))]
    /\ permits' = PermitsAfterOk(permits)
    /\ UNCHANGED <<now, authVars, courseVars, user_task_grade, req, queue, n_threads,
                   dispatcher, sent, spawned>>

\* container_add_task_grade(user_id, task_id, &json_results, results.score())
WorkerPersist(j) ==
    /\ worker[j].pc = "persist"
    /\ LET c == Unwrap(worker[j].container)
           results == Unwrap(worker[j].results)
       IN user_task_grade' = container_add_task_grade(user_task_grade, c.user_id,
                                  c.task_id, results, Score(results))
    /\ worker' = [worker EXCEPT ![j].pc = "ended", ![j].outcome = "ok"]
    /\ UNCHANGED <<now, authVars, courseVars, req, queue, permits, n_threads, dispatcher,
                   sent, spawned>>

\* ------------------------------------------------------- assignment updates

\* The bodies posted to update_assignment: a deadline and, per task, the
\* number of its tests.
UpdateBodies ==
    {[deadline |-> d, tasks |-> ts] : d \in {1, 2}, ts \in {<<1>>}}

\* update_assignment, one transaction: UPDATE assignments SET deadline; DELETE
\* FROM tasks WHERE assignment_id (ON DELETE CASCADE removes the tests and the
\* user_task_grade rows of those tasks); INSERT the tasks of the body, which
\* take fresh ids from the identity sequence.
update_assignment(assignment_id) ==
    \E body \in UpdateBodies :
        LET old == {t.id : t \in {t \in tasks : t.assignment_id = assignment_id}}
            new == {[id |-> task_seq + i, assignment_id |-> assignment_id,
                     n_tests |-> body.tasks[i]] : i \in 1..Len(body.tasks)}
        IN /\ task_seq + Len(body.tasks) <= MaxTaskSeq
           /\ assignments' = [assignments EXCEPT ![assignment_id] = body.deadline]
           /\ tasks' = {t \in tasks : t.id \notin old} \cup new
           /\ task_seq' = task_seq + Len(body.tasks)
           /\ user_task_grade' = {g \in user_task_grade : g.task_id \notin old}
           /\ UNCHANGED <<now, authVars, score_out, readVars, req, queue, permits, n_threads, dispatcher,
                          worker, sent, spawned>>

\* ------------------------------------------------------------ assignment score

\* f32 values kept exact as <<numerator, denominator>>.
RatMul(a, b) == <<a[1] * b[1], a[2] * b[2]>>
RatAdd(a, b) == <<a[1] * b[2] + b[1] * a[2], a[2] * b[2]>>

\* No factor for a late submission.
NoLatePenalty(was_late) == <<1, 1>>

\* if was_late { 0.5 } else { 1.0 }
LateFactor(was_late) == IF was_late THEN <<1, 2>> ELSE <<1, 1>>

\* assignment_class: the classes each assignment is given to.
AssignmentClass == {[assignment_id |-> a, class_number |-> "cs1"] : a \in AssignmentIds}

\* No image is being run.
IdleSandbox == [pc |-> "idle", duration |-> FALSE, n_tests |-> 0, i |-> 0,
                procs |-> <<>>, reports |-> <<>>]

Downloads == 1..MaxDownloads

IdleDownload == [pc |-> "idle", username |-> <<>>, assignment_id |-> 0,
                 made |-> FALSE, bundle |-> FALSE, status |-> None]

IdlePoll == [pc |-> "idle", user_id |-> 0, task_id |-> 0, status |-> None,
             body |-> None]

HostInit ==
    /\ sandbox = IdleSandbox
    /\ download = [d \in Downloads |-> IdleDownload]
    /\ fs = {}
    /\ poll = IdlePoll

\* The table as the course set-up leaves it, and no call answered yet.
ReadInit ==
    /\ assignment_class = AssignmentClass
    /\ scores_out = None
    /\ exec_in = None
    /\ exec_out = None
    /\ chan_cap = I32Max
    /\ HostInit

\* First query of get_assignment_score: users JOIN user_class JOIN
\* assignment_class WHERE c.is_instructor = FALSE AND users.id = $2.
ScoreUserRows(user_id, assignment_id) ==
    {<<u, c, ac>> \in users \X user_class \X assignment_class :
        /\ c.user_id = u.id
        /\ ac.assignment_id = assignment_id
        /\ c.is_instructor = FALSE
        /\ u.id = user_id}

\* SELECT task_id, COUNT(tests.id) FROM tests JOIN tasks ... GROUP BY task_id:
\* the tasks of the assignment that have a test.
ScoredTasks(assignment_id) ==
    {t \in tasks : t.assignment_id = assignment_id /\ t.n_tests > 0}

GradeRowsOf(user_id, task_id) ==
    {g \in user_task_grade : g.user_id = user_id /\ g.task_id = task_id}

\* r.get("grade") into f32 panics on a NULL grade.
ScorePanics(user_id, assignment_id) ==
    /\ ScoreUserRows(user_id, assignment_id) # {}
    /\ \E t \in ScoredTasks(assignment_id) :
          \E g \in GradeRowsOf(user_id, t.id) : g.grade = None

\* (grade * if was_late { 0.5 } else { 1.0 }) * n_tests as f32, (0.0, false)
\* when the task has no row.
TaskTerm(user_id, t) ==
    LET rows == GradeRowsOf(user_id, t.id)
    IN IF rows = {} THEN RatMul(RatMul(<<0, 1>>, LateFactor(FALSE)), <<t.n_tests, 1>>)
       ELSE LET g == CHOOSE g \in rows : TRUE
            IN RatMul(RatMul(Unwrap(g.grade), LateFactor(g.was_late)), <<t.n_tests, 1>>)

RECURSIVE SumGrade(_, _)
SumGrade(user_id, ts) ==
    IF ts = {} THEN <<0, 1>>
    ELSE LET t == CHOOSE t \in ts : TRUE
         IN RatAdd(TaskTerm(user_id, t), SumGrade(user_id, ts \ {t}))

RECURSIVE SumTests(_)
SumTests(ts) ==
    IF ts = {} THEN 0
    ELSE LET t == CHOOSE t \in ts : TRUE IN t.n_tests + SumTests(ts \ {t})

\* get_assignment_score: Ok(None) without a row of the first query, else
\* sum_grade / sum_tests as f32.
get_assignment_score(user_id, assignment_id) ==
    IF ScoreUserRows(user_id, assignment_id) = {} THEN None
    ELSE LET ts == ScoredTasks(assignment_id)
         IN Some(RatMul(SumGrade(user_id, ts), <<1, SumTests(ts)>>))

\* A caller asks for the score of a user on an assignment.
GetAssignmentScore(user_id, assignment_id) ==
    /\ score_out = None
    /\ score_out' = Some([user_id |-> user_id, assignment_id |-> assignment_id,
                          panicked |-> ScorePanics(user_id, assignment_id),
                          result |-> IF ScorePanics(user_id, assignment_id) THEN None
                                     ELSE get_assignment_score(user_id, assignment_id)])
    /\ UNCHANGED <<now, authVars, assignments, tasks, task_seq, readVars,
                   user_task_grade, req, queue, permits, n_threads, dispatcher, worker,
                   sent, spawned>>

\* The rows a finished, a running or no submission leaves for a task with n
\* tests: passes / n with passes <= n (0 / 0 for n = 0), late or not.
RowsFor(user_id, t) ==
    {None}
      \cup {Some([NewGradeRow(user_id, t.assignment_id, t.id, late, 1)
                    EXCEPT !.grade = grade]) :
               late \in BOOLEAN,
               grade \in {None} \cup {Some(<<p, t.n_tests>>) : p \in 0..t.n_tests}}

\* ----------------------------------------------------- scores of an assignment

\* First query of get_assignment_scores: users JOIN user_class c ON c.user_id =
\* id JOIN assignment_class ac ON ac.class_number = c.class_number WHERE
\* c.is_instructor = FALSE AND ac.assignment_id = $1, one row per match.
ScoresUserRows(assignment_id) ==
    {<<u, c, ac>> \in users \X user_class \X assignment_class :
        /\ c.user_id = u.id
        /\ ac.class_number = c.class_number
        /\ c.is_instructor = FALSE
        /\ ac.assignment_id = assignment_id}

\* fetch_all hands the rows over in some order.
RECURSIVE RowSeq(_)
RowSeq(rows) ==
    IF rows = {} THEN <<>>
    ELSE LET row == CHOOSE row \in rows : TRUE
         IN <<row>> \o RowSeq(rows \ {row})

\* r.get("grade") into f32 panics on a NULL grade, for any row of the query.
ScoresPanic(assignment_id) ==
    \E row \in ScoresUserRows(assignment_id) : \E t \in ScoredTasks(assignment_id) :
        \E g \in GradeRowsOf(row[1].id, t.id) : g.grade = None

\* for row in rows { ... grades.push(AssignmentGrade { name, username, score }) }
get_assignment_scores(assignment_id) ==
    LET rows == RowSeq(ScoresUserRows(assignment_id))
        ts == ScoredTasks(assignment_id)
    IN [i \in 1..Len(rows) |->
          [user_id |-> rows[i][1].id, username |-> rows[i][1].user_name,
           score |-> RatMul(SumGrade(rows[i][1].id, ts), <<1, SumTests(ts)>>)]]

\* An instructor asks for the scores of an assignment.
GetAssignmentScores(assignment_id) ==
    /\ scores_out = None
    /\ scores_out' = Some([assignment_id |-> assignment_id,
                           panicked |-> ScoresPanic(assignment_id),
                           grades |-> IF ScoresPanic(assignment_id) THEN <<>>
                                      ELSE get_assignment_scores(assignment_id)])
    /\ UNCHANGED <<now, authVars, assignments, tasks, task_seq, score_out,
                   assignment_class, execVars, chan_cap, hostVars, user_task_grade, req, queue, permits, n_threads,
                   dispatcher, worker, sent, spawned>>

\* ------------------------------------------------------------ result records

\* str::trim, on strings kept as sequences of characters.
RECURSIVE TrimStart(_)
TrimStart(str) ==
    IF str # <<>> /\ Head(str) = " " THEN TrimStart(Tail(str)) ELSE str

RECURSIVE TrimEnd(_)
TrimEnd(str) ==
    IF str # <<>> /\ str[Len(str)] = " " THEN TrimEnd(SubSeq(str, 1, Len(str) - 1))
    ELSE str

Trim(str) == TrimEnd(TrimStart(str))

InputOutput(input, expected, found) ==
    [input |-> input, expected |-> expected, found |-> found]

\* SubmissionResponse::pass .. pub_err: the Test pushed and the passes added.
pass_private(test_name, was_late) ==
    [test |-> [test_name |-> test_name, status |-> StatusOf("pass", was_late),
               input_output |-> None],
     passes |-> 1]

pub_pass(test_name, was_late, input, expected, found) ==
    [test |-> [test_name |-> test_name, status |-> StatusOf("pass", was_late),
               input_output |-> Some(InputOutput(input, expected, found))],
     passes |-> 1]

fail(test_name) ==
    [test |-> [test_name |-> test_name, status |-> "FAIL", input_output |-> None],
     passes |-> 0]

pub_fail(test_name, input, expected, found) ==
    [test |-> [test_name |-> test_name, status |-> "FAIL",
               input_output |-> Some(InputOutput(input, expected, found))],
     passes |-> 0]

time_out(test_name) ==
    [test |-> [test_name |-> test_name, status |-> "TIMED OUT", input_output |-> None],
     passes |-> 0]

\* A public timeout recorded without its input and expected output.
pub_time_out_bare(test_name, input, expected) == time_out(test_name)

pub_time_out(test_name, input, expected) ==
    [test |-> [test_name |-> test_name, status |-> "TIMED OUT",
               input_output |-> Some(InputOutput(input, expected, <<>>))],
     passes |-> 0]

err(test_name) ==
    [test |-> [test_name |-> test_name, status |-> "ERR", input_output |-> None],
     passes |-> 0]

pub_err(test_name, input, expected, found) ==
    [test |-> [test_name |-> test_name, status |-> "ERR",
               input_output |-> Some(InputOutput(input, expected, found))],
     passes |-> 0]

\* One turn of the loop of run_container: image.exec answered ran, and the
\* branch taken pushes one Test.
RunOneTest(test, ran, was_late) ==
    IF ran.kind = "timeout"
      THEN IF test.public THEN pub_time_out(test.test_name, test.input, test.output)
           ELSE time_out(test.test_name)
    ELSE IF ran.kind = "err"
      THEN IF test.public THEN pub_err(test.test_name, test.input, test.output, ran.text)
           ELSE err(test.test_name)
    ELSE IF Trim(ran.text) = Trim(test.output)
      THEN IF test.public
             THEN pub_pass(test.test_name, was_late, Trim(test.input),
                           Trim(test.output), Trim(ran.text))
             ELSE pass_private(test.test_name, was_late)
    ELSE IF test.public
             THEN pub_fail(test.test_name, Trim(test.input), Trim(test.output),
                           Trim(ran.text))
             ELSE fail(test.test_name)

RECURSIVE SumPasses(_)
SumPasses(pushed) ==
    IF pushed = <<>> THEN 0 ELSE Head(pushed).passes + SumPasses(Tail(pushed))

\* run_container from SubmissionResponse::default() to Ok(test_results).
RunContainer(tests, rans, was_late) ==
    LET pushed == [i \in 1..Len(tests) |-> RunOneTest(tests[i], rans[i], was_late)]
    IN [tests |-> [i \in 1..Len(tests) |-> pushed[i].test],
        passes |-> SumPasses(pushed)]

\* The tests an instructor can write and what the sandbox can answer.
ExecTexts == {<<"y">>, <<"y", " ">>}
ExecTestSet ==
    [test_name : {"t"}, public : BOOLEAN, input : {<<"x">>, <<"w">>}, output : ExecTexts]
ExecRanSet ==
    {[kind |-> "timeout", text |-> <<>>], [kind |-> "err", text |-> <<"e">>]}
      \cup [kind : {"out"}, text : {<<"y">>, <<"z">>}]

\* What a sandbox process does: whether the timer of the select! completes
\* before it, and what it wrote to stdout and stderr.
ExecProcSet ==
    [timer_first : BOOLEAN, stdout : {<<"y">>, <<" ", "y">>, <<"z">>},
     stderr : {<<>>, <<"e">>}]

\* An exec that hands stdout back whatever was written to stderr.
exec_ignoring_stderr(p) ==
    IF p.timer_first THEN [kind |-> "timeout", text |-> <<>>]
    ELSE [kind |-> "out", text |-> p.stdout]

\* Image::exec: Ok(None) when the timer wins the select!, Err(trimmed stderr)
\* when stderr is not empty, Ok(Some(stdout)) otherwise.
exec(p) ==
    IF p.timer_first THEN [kind |-> "timeout", text |-> <<>>]
    ELSE IF p.stderr # <<>> THEN [kind |-> "err", text |-> Trim(p.stderr)]
    ELSE [kind |-> "out", text |-> p.stdout]

\* The tests of a task whose runs are classified.
ClassifyTestSet ==
    [test_name : {"t"}, public : BOOLEAN, input : {<<"x">>}, output : ExecTexts]

\* A worker runs the tests of a task.
RunContainerCall ==
    /\ exec_in # None
    /\ exec_out = None
    /\ exec_out' = Some(RunContainer(Unwrap(exec_in).tests, Unwrap(exec_in).rans,
                                     Unwrap(exec_in).was_late))
    /\ UNCHANGED <<now, authVars, assignments, tasks, task_seq, score_out,
                   assignment_class, scores_out, exec_in, chan_cap, hostVars,
                   user_task_grade, req, queue,
                   permits, n_threads, dispatcher, worker, sent, spawned>>

\* ------------------------------------------------------------------ sandbox

SandboxFrame ==
    UNCHANGED <<now, authVars, assignments, tasks, task_seq, score_out, assignment_class,
                scores_out, execVars, chan_cap, download, fs, poll, user_task_grade, req,
                queue, permits, n_threads, dispatcher, worker, sent, spawned>>

\* After a test has been recorded: the next test, or the end of run_container,
\* where the Image is dropped.
AfterTest(sb, status) ==
    [sb EXCEPT !.reports = Append(sb.reports, status),
               !.i = sb.i + 1,
               !.pc = IF sb.i = sb.n_tests THEN "drop" ELSE "spawn"]

\* run_container has built the image and enters the test loop; duration is
\* whether assignment.get_timeout() is Some.
SandboxStart ==
    /\ sandbox.pc = "idle"
    /\ \E n \in 1..MaxExecTests, duration \in BOOLEAN :
          sandbox' = [IdleSandbox EXCEPT !.pc = "spawn", !.duration = duration,
                                         !.n_tests = n, !.i = 1]
    /\ SandboxFrame

\* Image::exec: Command::new("podman").args(["run", "-i", ..]).spawn(), the
\* input is written, and the wait starts.
ExecSpawn ==
    /\ sandbox.pc = "spawn"
    /\ sandbox' = [sandbox EXCEPT !.procs = Append(sandbox.procs, "running"),
                                  !.pc = "wait"]
    /\ SandboxFrame

\* A sandbox process ends by itself.
ChildExit ==
    /\ \E k \in 1..Len(sandbox.procs) :
          /\ sandbox.procs[k] = "running"
          /\ sandbox' = [sandbox EXCEPT !.procs[k] = "exited"]
    /\ SandboxFrame

\* select!: the timer task completes first.  exec returns Ok(None); the task
\* that owns the child is detached with its JoinHandle and goes on waiting,
\* and nothing signals the process.  run_container records the timeout.
ExecTimeout ==
    /\ sandbox.pc = "wait"
    /\ sandbox.duration
    /\ sandbox' = AfterTest(sandbox, "TIMED OUT")
    /\ SandboxFrame

\* wait_with_output returns: the process has ended, and run_container records
\* an error, a pass or a failure.
ExecOutput ==
    /\ sandbox.pc = "wait"
    /\ sandbox.procs[sandbox.i] = "exited"
    /\ \E status \in {"ERR", "PASS", "FAIL"} : sandbox' = AfterTest(sandbox, status)
    /\ SandboxFrame

\* Drop for Image: podman container prune -f removes the containers that have
\* stopped; podman rmi follows.
ImageDrop ==
    /\ sandbox.pc = "drop"
    /\ sandbox' = [sandbox EXCEPT
                      !.pc = "done",
                      !.procs = [k \in 1..Len(sandbox.procs) |->
                                   IF sandbox.procs[k] = "exited" THEN "removed"
                                   ELSE sandbox.procs[k]]]
    /\ SandboxFrame

\* ------------------------------------------------------- download_submission

DownloadFrame ==
    UNCHANGED <<now, authVars, assignments, tasks, task_seq, score_out, assignment_class,
                scores_out, execVars, chan_cap, sandbox, poll, user_task_grade, req,
                queue, permits, n_threads, dispatcher, worker, sent, spawned>>

\* format!("/tmp/securegrade/download/{}-{}", username, assignment_id)
DownloadDir(d) == <<download[d].username, download[d].assignment_id>>

\* An unwrap fails: the handler task panics where it stands.
DownloadPanic(d) == [download EXCEPT ![d].pc = "panicked"]

\* SELECT task_id, task_description, submission_zip FROM user_task_grade JOIN
\* tasks ON tasks.id = task_id WHERE user_id = $1 AND tasks.assignment_id = $2
DownloadRows(user_id, assignment_id) ==
    {g \in user_task_grade :
        /\ g.user_id = user_id
        /\ \E t \in tasks : t.id = g.task_id /\ t.assignment_id = assignment_id}

\* The endpoint calls download_submission: the user is looked up (Err on an
\* unknown name, which the endpoint unwraps), the rows are read (Ok(None), 404,
\* when there are none) and create_dir_all makes the directory or fails.
DownloadStart(d) ==
    /\ download[d].pc = "idle"
    /\ \E username \in {NameAb, NameCd}, assignment_id \in AssignmentIds :
          LET user_rows == {u \in users : u.user_name = username}
              call == [IdleDownload EXCEPT !.username = username,
                                           !.assignment_id = assignment_id]
          IN IF user_rows = {}
               THEN /\ download' = [download EXCEPT ![d] = [call EXCEPT !.pc = "panicked"]]
                    /\ UNCHANGED fs
             ELSE IF DownloadRows((CHOOSE u \in user_rows : TRUE).id, assignment_id) = {}
               THEN /\ download' = [download EXCEPT ![d] =
                                      [call EXCEPT !.pc = "done",
                                                   !.status = Some(StatusNotFound)]]
                    /\ UNCHANGED fs
             ELSE \/ /\ download' = [download EXCEPT ![d] =
                                        [call EXCEPT !.pc = "created", !.made = TRUE]]
                     /\ fs' = fs \cup {<<username, assignment_id>>}
                  \/ /\ download' = [download EXCEPT ![d] = [call EXCEPT !.pc = "panicked"]]
                     /\ UNCHANGED fs
    /\ DownloadFrame

\* std::fs::write(..).unwrap() for every row: all written, or one fails (it
\* must when the directory is gone).
DownloadWrite(d) ==
    /\ download[d].pc = "created"
    /\ \/ /\ DownloadDir(d) \in fs
          /\ download' = [download EXCEPT ![d].pc = "written"]
       \/ download' = DownloadPanic(d)
    /\ UNCHANGED fs
    /\ DownloadFrame

\* Command::new("zip")..spawn().unwrap().wait().unwrap(): the tool cannot be
\* started, or it runs and leaves the bundle, or it runs and fails (its exit
\* status is not looked at).
DownloadZip(d) ==
    /\ download[d].pc = "written"
    /\ \/ /\ DownloadDir(d) \in fs
          /\ download' = [download EXCEPT ![d].pc = "zipped", ![d].bundle = TRUE]
       \/ download' = [download EXCEPT ![d].pc = "zipped"]
       \/ download' = DownloadPanic(d)
    /\ UNCHANGED fs
    /\ DownloadFrame

\* File::open(..).unwrap(), read_to_end(..).unwrap(), remove_dir_all(..).unwrap(),
\* Ok(Some(zip_file)) -> 200.
DownloadRead(d) ==
    /\ download[d].pc = "zipped"
    /\ \/ /\ download[d].bundle
          /\ DownloadDir(d) \in fs
          /\ fs' = fs \ {DownloadDir(d)}
          /\ download' = [download EXCEPT ![d].pc = "done", ![d].status = Some(StatusOk)]
       \/ /\ download' = DownloadPanic(d)
          /\ UNCHANGED fs
    /\ DownloadFrame

\* ------------------------------------------------------------ specification

IdleWorker == [pc |-> "none", perm |-> FALSE, container |-> None,
               results |-> None, outcome |-> "none"]

\* create_hash: SHA-512 of first half of user_name, password, second half.
create_hash(user_name, pass) ==
    LET name_len == Len(user_name)
        first_half_user_name == SubSeq(user_name, 1, name_len \div 2)
        last_half_user_name == SubSeq(user_name, name_len \div 2 + 1, name_len)
    IN Sha512(first_half_user_name \o pass \o last_half_user_name)

\* The rows the database holds before the run: a student, an admin and an
\* instructor, each with the password "p", enrolled in the one class.
InitUsers ==
    {[id |-> 1, user_name |-> NameAb, is_admin |-> FALSE],
     [id |-> 2, user_name |-> NameAd, is_admin |-> TRUE],
     [id |-> 3, user_name |-> NameIn, is_admin |-> FALSE]}
InitUserAuth ==
    {[hash |-> create_hash(u.user_name, PassP), user_id |-> u.id] : u \in InitUsers}
InitUserClass ==
    {[user_id |-> 1, class_number |-> "cs1", is_instructor |-> FALSE],
     [user_id |-> 3, class_number |-> "cs1", is_instructor |-> TRUE]}

IdleLogin == [pc |-> "idle", op |-> "none", user_name |-> <<>>, pass |-> <<>>,
              id |-> 0, session_id |-> 0, current_time |-> 0, targets |-> {},
              deleted |-> {}, inserted |-> None, status |-> None, token |-> None]

Logins == 1..MaxLogins

\* The bodies the clients post to /login and /signup.
LoginRequests ==
    {[op |-> "login", user_name |-> n, pass |-> p] :
        n \in {NameAb, NameAd}, p \in {PassP, PassQ}}
    \cup {[op |-> "signup", user_name |-> n, pass |-> PassP] : n \in {NameAb, NameCd}}
    \cup {[op |-> o, user_name |-> NameApb, pass |-> PassEmpty] : o \in {"signup", "login"}}

LoginRespond(l, code, token) ==
    [login EXCEPT ![l].pc = "done", ![l].status = Some(code), ![l].token = token]

\* The users row of a transaction that ended without its rollback.
KeptAfterError(table, row) == table \cup {row}

\* return Err(..) inside the transaction block: the sqlx Transaction is
\* dropped without commit, which rolls its INSERT back.
RolledBack(table, row) == table

\* register_user up to its commit: INSERT INTO users (user_name is UNIQUE),
\* INSERT INTO user_auth (hash is the primary key); an error returns Err with
\* the transaction dropped.  On success login_user follows.
SignupRegister(l) ==
    /\ login[l].pc = "idle"
    /\ \E body \in LoginRequests :
        /\ body.op = "signup"
        /\ LET hash == create_hash(body.user_name, body.pass)
               id == Cardinality(users) + 1
               failed == [IdleLogin EXCEPT !.pc = "done", !.op = "signup",
                                           !.user_name = body.user_name,
                                           !.pass = body.pass,
                                           !.status = Some(StatusInternal)]
           IN IF \E u \in users : u.user_name = body.user_name
                THEN /\ login' = [login EXCEPT ![l] = failed]
                     /\ UNCHANGED <<users, user_auth>>
              ELSE IF \E a \in user_auth : a.hash = hash
                THEN /\ login' = [login EXCEPT ![l] = [failed EXCEPT !.id = id]]
                     /\ users' = RolledBack(users, [id |-> id,
                                                    user_name |-> body.user_name,
                                                    is_admin |-> FALSE])
                     /\ UNCHANGED user_auth
                ELSE /\ users' = users \cup
                            {[id |-> id, user_name |-> body.user_name,
                              is_admin |-> FALSE]}
                     /\ user_auth' = user_auth \cup {[hash |-> hash, user_id |-> id]}
                     /\ login' = [login EXCEPT ![l] =
                            [IdleLogin EXCEPT !.pc = "select", !.op = "signup",
                                              !.user_name = body.user_name,
                                              !.pass = body.pass]]
    /\ UNCHANGED <<now, schedVars, gateVars, user_session, user_class, rng, issued>>

\* POST /login: the request arrives.
LoginStart(l) ==
    /\ login[l].pc = "idle"
    /\ \E body \in LoginRequests :
        /\ body.op = "login"
        /\ login' = [login EXCEPT ![l] =
                        [IdleLogin EXCEPT !.pc = "select", !.op = "login",
                                          !.user_name = body.user_name,
                                          !.pass = body.pass]]
    /\ UNCHANGED <<now, schedVars, gateVars, users, user_auth, user_session, user_class,
                   rng, issued>>

\* login_user: begin, SELECT * FROM user_auth WHERE hash = $1.
LoginSelect(l) ==
    /\ login[l].pc = "select"
    /\ LET hash == create_hash(login[l].user_name, login[l].pass)
           out == {a \in user_auth : a.hash = hash}
       IN IF out = {}
            THEN login' = LoginRespond(l, StatusInternal, None)
            ELSE login' = [login EXCEPT ![l].pc = "delete",
                              ![l].id = (CHOOSE a \in out : TRUE).user_id]
    /\ UNCHANGED <<now, schedVars, gateVars, users, user_auth, user_session, user_class,
                   rng, issued>>

\* The other login transactions that are open and have deleted rows.
LockedByOthers(l) ==
    UNION {login[k].deleted :
             k \in {k \in Logins : k # l /\ login[k].pc \in {"insert", "commit"}}}

\* rand::fill(&mut session_id): 16 random bytes, which repeat no earlier draw.
RandFill == rng + 1

\* The rows "DELETE FROM user_session WHERE user_id = $1" aims at: the rows of
\* the user committed when the statement starts (READ COMMITTED snapshot).
DeleteTargets(id) == {s \in user_session : s.user_id = id}

\* rand::fill, Utc::now(), and the DELETE statement takes its snapshot.
LoginDeleteStart(l) ==
    /\ login[l].pc = "delete"
    /\ rng' = RandFill
    /\ login' = [login EXCEPT ![l].pc = "deleting",
                               ![l].session_id = RandFill,
                               ![l].current_time = now,
                               ![l].targets = DeleteTargets(login[l].id)]
    /\ UNCHANGED <<now, schedVars, gateVars, users, user_auth, user_session, user_class,
                   issued>>

\* The DELETE statement ends: it waits while another open transaction holds a
\* row it aims at, and skips the rows that are gone by then.
LoginDeleteEnd(l) ==
    /\ login[l].pc = "deleting"
    /\ (login[l].targets \cap user_session) \cap LockedByOthers(l) = {}
    /\ login' = [login EXCEPT ![l].pc = "insert",
                               ![l].deleted = login[l].targets \cap user_session]
    /\ UNCHANGED <<now, schedVars, gateVars, users, user_auth, user_session, user_class,
                   rng, issued>>

\* A session row whose expiration is twice the hour.
NewSessionRowTwoHours(session_id, id, current_time) ==
    [session_hash |-> Sha512(session_id), user_id |-> id,
     expiration |-> current_time + OneHour + OneHour]

\* The session row login_user inserts: expiration = current_time + one_hour.
NewSessionRow(session_id, id, current_time) ==
    [session_hash |-> Sha512(session_id), user_id |-> id,
     expiration |-> current_time + OneHour]

\* INSERT INTO user_session (session_hash, user_id, expiration)
LoginInsert(l) ==
    /\ login[l].pc = "insert"
    /\ login' = [login EXCEPT ![l].pc = "commit",
                     ![l].inserted = Some(NewSessionRow(login[l].session_id,
                                              login[l].id, login[l].current_time))]
    /\ UNCHANGED <<now, schedVars, gateVars, users, user_auth, user_session, user_class,
                   rng, issued>>

\* transaction.commit(); Ok(session_id); the endpoint answers 200 with
\* Session::new(session_id), the base64 of the bytes.
LoginCommit(l) ==
    /\ login[l].pc = "commit"
    /\ user_session' = (user_session \ login[l].deleted) \cup {Unwrap(login[l].inserted)}
    /\ login' = LoginRespond(l, StatusOk, Some(Base64Encode(login[l].session_id)))
    /\ issued' = Append(issued, [user_id |-> login[l].id,
                                  token |-> Base64Encode(login[l].session_id)])
    /\ UNCHANGED <<now, schedVars, gateVars, users, user_auth, user_class, rng>>

\* Time passes.
Tick ==
    /\ now < MaxTime
    /\ now' = now + 1
    /\ UNCHANGED <<schedVars, authVars>>

\* ------------------------------------------------------- session predicates

\* session_exists_and_valid (database/auth.rs): no row -> false; now >
\* expiration -> false; otherwise true.
session_exists_and_valid(token) ==
    LET rows == SessionRowsOf(token)
    IN IF rows = {} THEN FALSE
       ELSE LET row == CHOOSE s \in rows : TRUE
            IN IF now > row.expiration THEN FALSE ELSE TRUE

\* ValidationRequest -> ValidationObject: decode, hash.
ValidationObject(class, session_base) ==
    [class |-> class, session_hash |-> Sha512(Base64Decode(session_base))]

\* validate_token (database/auth/validate.rs): expiration > now.
validate_token(validation) ==
    LET rows == {s \in user_session : s.session_hash = validation.session_hash}
    IN IF rows = {} THEN FALSE
       ELSE (CHOOSE s \in rows : TRUE).expiration > now

\* The user_session row validate_admin, validate_student and
\* validate_instructor read for the hash of the validation object.
ValidationRows(validation) ==
    {s \in user_session : s.session_hash = validation.session_hash}

\* validate_admin (database/auth/validate.rs): true when now <= expiration
\* and users.is_admin.
validate_admin(validation) ==
    \E s \in ValidationRows(validation) :
        /\ now <= s.expiration
        /\ \E u \in users : u.id = s.user_id /\ u.is_admin

\* validate_student: true when expiration >= now and the enrollment row of
\* the class has is_instructor = false (without a class it is false; without
\* an enrollment row fetch_one is unwrapped and nothing is returned).
validate_student(validation) ==
    /\ validation.class # None
    /\ \E s \in ValidationRows(validation) :
          /\ s.expiration >= now
          /\ \E e \in user_class :
                /\ e.user_id = s.user_id
                /\ e.class_number = Unwrap(validation.class)
                /\ ~e.is_instructor

\* validate_instructor: the same with is_instructor = true.
validate_instructor(validation) ==
    /\ validation.class # None
    /\ \E s \in ValidationRows(validation) :
          /\ s.expiration >= now
          /\ \E e \in user_class :
                /\ e.user_id = s.user_id
                /\ e.class_number = Unwrap(validation.class)
                /\ e.is_instructor

\* Any session that has not passed its expiration counts as an administrator.
AnyLiveSessionIsAdmin(token) == session_exists_and_valid(token)

\* session_is_admin: row, not now > expiration, users.is_admin.
session_is_admin(token) ==
    LET rows == SessionRowsOf(token)
    IN IF rows = {} THEN FALSE
       ELSE LET row == CHOOSE s \in rows : TRUE
            IN IF now > row.expiration THEN FALSE
               ELSE \E u \in users : u.id = row.user_id /\ u.is_admin

\* session_is_instructor: row, not now > expiration, the enrollment row's
\* is_instructor.
session_is_instructor(class_number, token) ==
    LET rows == SessionRowsOf(token)
    IN IF rows = {} THEN FALSE
       ELSE LET row == CHOOSE s \in rows : TRUE
            IN IF now > row.expiration THEN FALSE
               ELSE \E e \in user_class :
                       /\ e.class_number = class_number
                       /\ e.user_id = row.user_id
                       /\ e.is_instructor

\* An enrollment row of any kind makes a student.
session_is_enrolled(class_number, token) ==
    \E s \in SessionRowsOf(token) : \E e \in user_class :
        ~(now > s.expiration) /\ e.user_id = s.user_id /\ e.class_number = class_number

\* session_is_student: row, not now > expiration, an enrollment row with
\* is_instructor = false.
session_is_student(class_number, token) ==
    LET rows == SessionRowsOf(token)
    IN IF rows = {} THEN FALSE
       ELSE LET row == CHOOSE s \in rows : TRUE
            IN IF now > row.expiration THEN FALSE
               ELSE \E e \in user_class :
                       /\ e.class_number = class_number
                       /\ e.user_id = row.user_id
                       /\ ~e.is_instructor

\* ---------------------------------------------------------------- role layers

Gates == 1..MaxGates

\* The routes of the router (main.rs 53-101), one per layer group, and the
\* layers a request to each passes, outermost first: Router::layer wraps the
\* routes added before it, so a later layer is outside an earlier one.
Routes == {"admin", "instructor", "student", "user"}
LayersOf(route) ==
    CASE route = "admin" -> <<"basic", "student", "instructor", "admin">>
      [] route = "instructor" -> <<"basic", "student", "instructor">>
      [] route = "student" -> <<"basic", "student">>
      [] route = "user" -> <<"basic">>

\* Path<Vec<String>>::first(): the class_number of the /instructor and /student
\* routes; the /admin and plain routes have no path parameter.
PathParams(route) ==
    IF route \in {"instructor", "student"} THEN {Some(c) : c \in Classes} ELSE {None}

\* An Authorization value that is not base64: the decode's unwrap panics.
Malformed == <<"raw", 0>>
DecodePanics(token) == token[1] # "b64"

\* The Authorization headers the clients send: none, a malformed one, base64
\* of bytes no session was made from, and every token drawn so far.
GateTokens ==
    {None, Some(Malformed), Some(Base64Encode(0))}
        \cup {Some(Base64Encode(b)) : b \in 1..rng}

IdleGate == [pc |-> "idle", route |-> "none", class |-> None, token |-> None,
             status |-> None, by |-> "none", headers |-> None]

\* The layer (or the handler) that follows layer `layer` on the route.
NextStage(route, layer) ==
    LET ls == LayersOf(route)
        i == CHOOSE k \in 1..Len(ls) : ls[k] = layer
    IN IF i = Len(ls) THEN "handler" ELSE ls[i + 1]

GatePass(g, layer) == [gate EXCEPT ![g].pc = NextStage(gate[g].route, layer)]
GateAnswer(g, layer, code) ==
    [gate EXCEPT ![g].pc = "done", ![g].status = Some(code), ![g].by = layer]
\* A panic in the connection's task: the connection ends without a response.
GatePanic(g, layer) == [gate EXCEPT ![g].pc = "panicked", ![g].by = layer]

\* A client sends a request on connection g.
GateStart(g) ==
    /\ gate[g].pc = "idle"
    /\ \E route \in Routes, token \in GateTokens :
        \E class \in PathParams(route) :
            gate' = [gate EXCEPT ![g] =
                        [IdleGate EXCEPT !.pc = "basic", !.route = route,
                                         !.class = class, !.token = token]]
    /\ UNCHANGED <<now, schedVars, users, user_auth, user_session, user_class,
                   login, rng, issued, classes>>

\* The client has read the response (or seen the connection end after a panic)
\* and connection g is ready for its next request.
GateClose(g) ==
    /\ gate[g].pc \in {"done", "panicked"}
    /\ gate' = [gate EXCEPT ![g] = IdleGate]
    /\ UNCHANGED <<now, schedVars, users, user_auth, user_session, user_class,
                   login, rng, issued, classes>>

\* handle_basic_auth up to next.run: no header -> 401; session_exists_and_valid
\* false -> 401; true -> the inner service.
GateBasic(g) ==
    /\ gate[g].pc = "basic"
    /\ IF gate[g].token = None
         THEN gate' = GateAnswer(g, "basic", StatusUnauthorized)
         ELSE LET token == Unwrap(gate[g].token)
              IN IF DecodePanics(token)
                   THEN gate' = GatePanic(g, "basic")
                   ELSE IF session_exists_and_valid(token)
                          THEN gate' = GatePass(g, "basic")
                          ELSE gate' = GateAnswer(g, "basic", StatusUnauthorized)
    /\ UNCHANGED <<now, schedVars, users, user_auth, user_session, user_class,
                   login, rng, issued, classes>>

\* handle_student_auth, first query: no header -> 403; with a class parameter
\* session_is_student, and when it is false the second query follows; with no
\* class parameter session_is_admin decides.
GateStudent(g) ==
    /\ gate[g].pc = "student"
    /\ IF gate[g].token = None
         THEN gate' = GateAnswer(g, "student", StatusForbidden)
         ELSE LET token == Unwrap(gate[g].token)
              IN IF DecodePanics(token)
                   THEN gate' = GatePanic(g, "student")
                   ELSE IF IsSome(gate[g].class)
                          THEN IF session_is_student(Unwrap(gate[g].class), token)
                                 THEN gate' = GatePass(g, "student")
                                 ELSE gate' = [gate EXCEPT ![g].pc = "student2"]
                          ELSE IF session_is_admin(token)
                                 THEN gate' = GatePass(g, "student")
                                 ELSE gate' = GateAnswer(g, "student", StatusForbidden)
    /\ UNCHANGED <<now, schedVars, users, user_auth, user_session, user_class,
                   login, rng, issued, classes>>

\* handle_student_auth, second query: is_auth || session_is_instructor.
GateStudentInstructor(g) ==
    /\ gate[g].pc = "student2"
    /\ IF session_is_instructor(Unwrap(gate[g].class), Unwrap(gate[g].token))
         THEN gate' = GatePass(g, "student")
         ELSE gate' = GateAnswer(g, "student", StatusForbidden)
    /\ UNCHANGED <<now, schedVars, users, user_auth, user_session, user_class,
                   login, rng, issued, classes>>

\* handle_instructor_auth: no header -> 403; session_is_instructor with a
\* class parameter, session_is_admin without one.
GateInstructor(g) ==
    /\ gate[g].pc = "instructor"
    /\ IF gate[g].token = None
         THEN gate' = GateAnswer(g, "instructor", StatusForbidden)
         ELSE LET token == Unwrap(gate[g].token)
                  is_auth == IF IsSome(gate[g].class)
                               THEN session_is_instructor(Unwrap(gate[g].class), token)
                               ELSE session_is_admin(token)
              IN IF DecodePanics(token)
                   THEN gate' = GatePanic(g, "instructor")
                   ELSE IF is_auth
                          THEN gate' = GatePass(g, "instructor")
                          ELSE gate' = GateAnswer(g, "instructor", StatusForbidden)
    /\ UNCHANGED <<now, schedVars, users, user_auth, user_session, user_class,
                   login, rng, issued, classes>>

\* handle_admin_auth: no header -> 403; session_is_admin true -> next.
GateAdmin(g) ==
    /\ gate[g].pc = "admin"
    /\ IF gate[g].token = None
         THEN gate' = GateAnswer(g, "admin", StatusForbidden)
         ELSE LET token == Unwrap(gate[g].token)
              IN IF DecodePanics(token)
                   THEN gate' = GatePanic(g, "admin")
                   ELSE IF session_is_admin(token)
                          THEN gate' = GatePass(g, "admin")
                          ELSE gate' = GateAnswer(g, "admin", StatusForbidden)
    /\ UNCHANGED <<now, schedVars, users, user_auth, user_session, user_class,
                   login, rng, issued, classes>>

\* The bodies posted to /admin/create_class: a new class or an existing one,
\* with an instructor who exists or does not.
NewClassBodies ==
    {[class_number |-> c, instructor_user_name |-> n] :
        c \in {"cs1", "cs2"}, n \in {NameIn, NameCd}}

\* handle_basic_auth after next.run: the three role headers of the response.
RoleHeaders(class, token) ==
    [admin |-> session_is_admin(token),
     instructor |-> IF IsSome(class)
                      THEN session_is_instructor(Unwrap(class), token) ELSE FALSE,
     student |-> IF IsSome(class)
                   THEN session_is_student(Unwrap(class), token) ELSE FALSE]

GateRespond(g, code) ==
    [gate EXCEPT ![g].pc = "done", ![g].status = Some(code), ![g].by = "handler",
                 ![g].headers = Some(RoleHeaders(gate[g].class, Unwrap(gate[g].token)))]

\* create_class -> new_class: INSERT INTO classes (class_number is the primary
\* key), SELECT id FROM users, INSERT INTO user_class, commit; any error drops
\* the transaction and answers 500.
create_class(g) ==
    /\ gate[g].pc = "handler"
    /\ gate[g].route = "admin"
    /\ \E body \in NewClassBodies :
        LET found == {u \in users : u.user_name = body.instructor_user_name}
        IN IF body.class_number \in classes \/ found = {}
             THEN /\ gate' = GateRespond(g, StatusInternal)
                  /\ UNCHANGED <<classes, user_class>>
             ELSE /\ classes' = classes \cup {body.class_number}
                  /\ user_class' = user_class \cup
                        {[user_id |-> (CHOOSE u \in found : TRUE).id,
                          class_number |-> body.class_number,
                          is_instructor |-> TRUE]}
                  /\ gate' = GateRespond(g, StatusOk)
    /\ UNCHANGED <<now, schedVars, users, user_auth, user_session, login, rng,
                   issued>>

\* The handlers behind the other routes are reached and answer; what they do
\* to the grading state is the subject of the submit handler above.
GateHandler(g) ==
    /\ gate[g].pc = "handler"
    /\ gate[g].route # "admin"
    /\ gate' = GateRespond(g, StatusOk)
    /\ UNCHANGED <<now, schedVars, users, user_auth, user_session, user_class,
                   login, rng, issued, classes>>

\* The state after main() has initialised the database and the channel: the
\* registered users, one of them holding a session, no grades, an empty queue,
\* the semaphore at its compile-time count.
Init ==
    /\ now \in SubmitTimes
    /\ users = InitUsers
    /\ user_auth = InitUserAuth
    /\ user_class = InitUserClass
    /\ rng = Cardinality(LoggedIn)
    /\ issued = <<>>
    /\ user_session = {[session_hash |-> Sha512(u), user_id |-> u,
                        expiration |-> MaxTime + OneHour] : u \in LoggedIn}
    /\ user_task_grade = {}
    /\ req = [r \in Requests |-> IdleReq]
    /\ queue = <<>>
    /\ permits = DefaultPermits
    /\ n_threads \in NThreadsEnv
    /\ dispatcher = [pc |-> "init", perm |-> FALSE]
    /\ worker = [r \in Requests |-> IdleWorker]
    /\ sent = <<>>
    /\ spawned = <<>>
    /\ login = [l \in Logins |-> IdleLogin]
    /\ classes = Classes
    /\ gate = [g \in Gates |-> IdleGate]
    /\ assignments = InitDeadline
    /\ tasks = InitTasks
    /\ task_seq = Cardinality(InitTasks)
    /\ score_out = None
    /\ ReadInit

Next ==
    \/ \E r \in Requests : SubmitStart(r)
    \/ \E r \in Requests : SubmitCheck(r)
    \/ \E r \in Requests : SubmitRemove(r)
    \/ \E r \in Requests : SubmitMark(r)
    \/ \E r \in Requests : SubmitEnqueue(r)
    \/ \E r \in Requests : ClientCancel(r)
    \/ QueueStartup
    \/ DispatcherAcquire
    \/ DispatcherSpawn
    \/ \E j \in Requests : WorkerErr(j)
    \/ \E j \in Requests : WorkerPanic(j)
    \/ \E j \in Requests : WorkerRunOk(j)
    \/ \E j \in Requests : WorkerPersist(j)

Spec == Init /\ [][Next]_vars

\* The session store on its own: the registered users, nobody logged in, the
\* scheduler idle.
AuthInit ==
    /\ now = 0
    /\ users = InitUsers
    /\ user_auth = InitUserAuth
    /\ user_class = InitUserClass
    /\ user_session = {}
    /\ login = [l \in Logins |-> IdleLogin]
    /\ rng = 0
    /\ issued = <<>>
    /\ user_task_grade = {}
    /\ req = [r \in Requests |-> IdleReq]
    /\ queue = <<>>
    /\ permits = DefaultPermits
    /\ n_threads = None
    /\ dispatcher = [pc |-> "init", perm |-> FALSE]
    /\ worker = [r \in Requests |-> IdleWorker]
    /\ sent = <<>>
    /\ spawned = <<>>
    /\ classes = Classes
    /\ gate = [g \in Gates |-> IdleGate]
    /\ assignments = InitDeadline
    /\ tasks = InitTasks
    /\ task_seq = Cardinality(InitTasks)
    /\ score_out = None
    /\ ReadInit

AuthNext ==
    \/ \E l \in Logins : SignupRegister(l)
    \/ \E l \in Logins : LoginStart(l)
    \/ \E l \in Logins : LoginSelect(l)
    \/ \E l \in Logins : LoginDeleteStart(l)
    \/ \E l \in Logins : LoginDeleteEnd(l)
    \/ \E l \in Logins : LoginInsert(l)
    \/ \E l \in Logins : LoginCommit(l)
    \/ Tick

AuthSpec == AuthInit /\ [][AuthNext]_vars

\* The role layers in front of the handlers: the three registered users hold
\* sessions issued at instant 0; clients send requests and time passes.
GateInit ==
    /\ now = 0
    /\ users = InitUsers
    /\ user_auth = InitUserAuth
    /\ user_class = InitUserClass
    /\ user_session = {NewSessionRow(u.id, u.id, 0) : u \in InitUsers}
    /\ login = [l \in Logins |-> IdleLogin]
    /\ rng = Cardinality(InitUsers)
    /\ issued = <<>>
    /\ classes = Classes
    /\ gate = [g \in Gates |-> IdleGate]
    /\ assignments = InitDeadline
    /\ tasks = InitTasks
    /\ task_seq = Cardinality(InitTasks)
    /\ score_out = None
    /\ ReadInit
    /\ user_task_grade = {}
    /\ req = [r \in Requests |-> IdleReq]
    /\ queue = <<>>
    /\ permits = DefaultPermits
    /\ n_threads = None
    /\ dispatcher = [pc |-> "init", perm |-> FALSE]
    /\ worker = [r \in Requests |-> IdleWorker]
    /\ sent = <<>>
    /\ spawned = <<>>

GateNext ==
    \/ \E g \in Gates : GateStart(g)
    \/ \E g \in Gates : GateBasic(g)
    \/ \E g \in Gates : GateStudent(g)
    \/ \E g \in Gates : GateStudentInstructor(g)
    \/ \E g \in Gates : GateInstructor(g)
    \/ \E g \in Gates : GateAdmin(g)
    \/ \E g \in Gates : create_class(g)
    \/ \E g \in Gates : GateHandler(g)
    \/ \E g \in Gates : GateClose(g)
    \/ Tick

GateSpec == GateInit /\ [][GateNext]_vars

\* Nobody holds a session at first; one client logs in while the requests
\* travel through the layers.
SessionNext ==
    \/ GateNext
    \/ \E l \in {1} : LoginStart(l)
    \/ \E l \in {1} : LoginSelect(l)
    \/ \E l \in {1} : LoginDeleteStart(l)
    \/ \E l \in {1} : LoginDeleteEnd(l)
    \/ \E l \in {1} : LoginInsert(l)
    \/ \E l \in {1} : LoginCommit(l)

SessionSpec == AuthInit /\ [][SessionNext]_vars

\* Grading with the instructor updating the assignment: one dispatcher with
\* the default capacity, every sandbox run returning results.
CourseInit ==
    /\ Init
    /\ now = 0
    /\ n_threads = None

CourseNext ==
    \/ \E r \in Requests : SubmitStart(r)
    \/ \E r \in Requests : SubmitCheck(r)
    \/ \E r \in Requests : SubmitRemove(r)
    \/ \E r \in Requests : SubmitMark(r)
    \/ \E r \in Requests : SubmitEnqueue(r)
    \/ QueueStartup
    \/ DispatcherAcquire
    \/ DispatcherSpawn
    \/ \E j \in Requests : WorkerRunOk(j)
    \/ \E j \in Requests : WorkerPersist(j)
    \/ \E a \in AssignmentIds : update_assignment(a)

CourseSpec == CourseInit /\ [][CourseNext]_vars

\* One submit handler while time passes and the deadline is moved; the job
\* waits in the channel.
LateNext ==
    \/ \E r \in {1} : SubmitStart(r)
    \/ \E r \in {1} : SubmitCheck(r)
    \/ \E r \in {1} : SubmitRemove(r)
    \/ \E r \in {1} : SubmitMark(r)
    \/ \E r \in {1} : SubmitEnqueue(r)
    \/ \E a \in AssignmentIds : update_assignment(a)
    \/ Tick

LateSpec == CourseInit /\ [][LateNext]_vars

\* get_assignment_score over the tables a run can leave: two tasks with any
\* number of tests, and for the student no row, a row in progress or a graded
\* row on each.
ScoreInit ==
    /\ now = 0
    /\ users = InitUsers
    /\ user_auth = InitUserAuth
    /\ user_class = InitUserClass
    /\ user_session = {}
    /\ login = [l \in Logins |-> IdleLogin]
    /\ rng = 0
    /\ issued = <<>>
    /\ classes = Classes
    /\ gate = [g \in Gates |-> IdleGate]
    /\ assignments = InitDeadline
    /\ task_seq = Cardinality(InitTasks)
    /\ \E n1, n2 \in 0..MaxTests :
          /\ tasks = {[id |-> 1, assignment_id |-> 1, n_tests |-> n1],
                      [id |-> 2, assignment_id |-> 1, n_tests |-> n2]}
          /\ \E r1 \in RowsFor(1, [id |-> 1, assignment_id |-> 1, n_tests |-> n1]),
                r2 \in RowsFor(1, [id |-> 2, assignment_id |-> 1, n_tests |-> n2]) :
                user_task_grade = {Unwrap(r) : r \in {r \in {r1, r2} : r # None}}
    /\ score_out = None
    /\ ReadInit
    /\ req = [r \in Requests |-> IdleReq]
    /\ queue = <<>>
    /\ permits = DefaultPermits
    /\ n_threads = None
    /\ dispatcher = [pc |-> "init", perm |-> FALSE]
    /\ worker = [r \in Requests |-> IdleWorker]
    /\ sent = <<>>
    /\ spawned = <<>>

ScoreNext ==
    \/ \E u \in UserIds, a \in AssignmentIds : GetAssignmentScore(u, a)
    \/ \E a \in AssignmentIds : GetAssignmentScores(a)

ScoreSpec == ScoreInit /\ [][ScoreNext]_vars

\* The classes of the roster check.
RosterClasses == {"cs1", "cs2"}

\* get_assignment_scores over the rosters the instructors can set up: users 1
\* and 3 each absent from, student of or instructor of each class, the
\* assignment given to any of the classes, user 1 with or without a grade.
RosterInit ==
    /\ now = 0
    /\ users = InitUsers
    /\ user_auth = InitUserAuth
    /\ \E member \in [{1, 3} \X RosterClasses -> {"none", "student", "instructor"}] :
          user_class = {[user_id |-> k[1], class_number |-> k[2],
                         is_instructor |-> member[k] = "instructor"] :
                            k \in {k \in {1, 3} \X RosterClasses : member[k] # "none"}}
    /\ user_session = {}
    /\ login = [l \in Logins |-> IdleLogin]
    /\ rng = 0
    /\ issued = <<>>
    /\ classes = RosterClasses
    /\ gate = [g \in Gates |-> IdleGate]
    /\ assignments = InitDeadline
    /\ tasks = InitTasks
    /\ task_seq = Cardinality(InitTasks)
    /\ \E given \in SUBSET RosterClasses :
          assignment_class = {[assignment_id |-> 1, class_number |-> c] : c \in given}
    /\ \E row \in RowsFor(1, [id |-> 1, assignment_id |-> 1, n_tests |-> 1]) :
          user_task_grade = IF row = None THEN {} ELSE {Unwrap(row)}
    /\ score_out = None
    /\ scores_out = None
    /\ exec_in = None
    /\ exec_out = None
    /\ chan_cap = I32Max
    /\ HostInit
    /\ req = [r \in Requests |-> IdleReq]
    /\ queue = <<>>
    /\ permits = DefaultPermits
    /\ n_threads = None
    /\ dispatcher = [pc |-> "init", perm |-> FALSE]
    /\ worker = [r \in Requests |-> IdleWorker]
    /\ sent = <<>>
    /\ spawned = <<>>

RosterNext ==
    \/ \E a \in AssignmentIds : GetAssignmentScores(a)
    \/ \E u \in UserIds, a \in AssignmentIds : GetAssignmentScore(u, a)

RosterSpec == RosterInit /\ [][RosterNext]_vars

\* run_container over every list of at most MaxExecTests tests and every
\* answer of the sandbox to each.
ExecInit ==
    /\ now = 0
    /\ users = InitUsers
    /\ user_auth = InitUserAuth
    /\ user_class = InitUserClass
    /\ user_session = {}
    /\ login = [l \in Logins |-> IdleLogin]
    /\ rng = 0
    /\ issued = <<>>
    /\ classes = Classes
    /\ gate = [g \in Gates |-> IdleGate]
    /\ assignments = InitDeadline
    /\ tasks = InitTasks
    /\ task_seq = Cardinality(InitTasks)
    /\ user_task_grade = {}
    /\ score_out = None
    /\ assignment_class = AssignmentClass
    /\ scores_out = None
    /\ \E n \in 0..MaxExecTests :
          \E tests \in [1..n -> ExecTestSet], rans \in [1..n -> ExecRanSet],
             was_late \in BOOLEAN :
                exec_in = Some([tests |-> tests, rans |-> rans, was_late |-> was_late])
    /\ exec_out = None
    /\ chan_cap = I32Max
    /\ HostInit
    /\ req = [r \in Requests |-> IdleReq]
    /\ queue = <<>>
    /\ permits = DefaultPermits
    /\ n_threads = None
    /\ dispatcher = [pc |-> "init", perm |-> FALSE]
    /\ worker = [r \in Requests |-> IdleWorker]
    /\ sent = <<>>
    /\ spawned = <<>>

ExecNext == RunContainerCall

ExecSpec == ExecInit /\ [][ExecNext]_vars

\* run_container over the processes the sandbox can run for each test.
ClassifyInit ==
    /\ now = 0
    /\ users = InitUsers
    /\ user_auth = InitUserAuth
    /\ user_class = InitUserClass
    /\ user_session = {}
    /\ login = [l \in Logins |-> IdleLogin]
    /\ rng = 0
    /\ issued = <<>>
    /\ classes = Classes
    /\ gate = [g \in Gates |-> IdleGate]
    /\ assignments = InitDeadline
    /\ tasks = InitTasks
    /\ task_seq = Cardinality(InitTasks)
    /\ user_task_grade = {}
    /\ score_out = None
    /\ assignment_class = AssignmentClass
    /\ scores_out = None
    /\ \E n \in 0..MaxExecTests :
          \E tests \in [1..n -> ClassifyTestSet], procs \in [1..n -> ExecProcSet],
             was_late \in BOOLEAN :
                exec_in = Some([tests |-> tests, procs |-> procs,
                                rans |-> [i \in 1..n |-> exec(procs[i])],
                                was_late |-> was_late])
    /\ exec_out = None
    /\ chan_cap = I32Max
    /\ HostInit
    /\ req = [r \in Requests |-> IdleReq]
    /\ queue = <<>>
    /\ permits = DefaultPermits
    /\ n_threads = None
    /\ dispatcher = [pc |-> "init", perm |-> FALSE]
    /\ worker = [r \in Requests |-> IdleWorker]
    /\ sent = <<>>
    /\ spawned = <<>>

ClassifySpec == ClassifyInit /\ [][ExecNext]_vars

\* The scheduler with the channel down to its last free slots: a channel of
\* capacity chan_cap stands for the channel of capacity i32::MAX that already
\* holds all but chan_cap entries.
QueueInit ==
    /\ now = 0
    /\ users = InitUsers
    /\ user_auth = InitUserAuth
    /\ user_class = InitUserClass
    /\ rng = Cardinality(LoggedIn)
    /\ issued = <<>>
    /\ user_session = {[session_hash |-> Sha512(u), user_id |-> u,
                        expiration |-> MaxTime + OneHour] : u \in LoggedIn}
    /\ user_task_grade = {}
    /\ req = [r \in Requests |-> IdleReq]
    /\ queue = <<>>
    /\ permits = DefaultPermits
    /\ n_threads \in NThreadsEnv
    /\ dispatcher = [pc |-> "init", perm |-> FALSE]
    /\ worker = [r \in Requests |-> IdleWorker]
    /\ sent = <<>>
    /\ spawned = <<>>
    /\ login = [l \in Logins |-> IdleLogin]
    /\ classes = Classes
    /\ gate = [g \in Gates |-> IdleGate]
    /\ assignments = InitDeadline
    /\ tasks = InitTasks
    /\ task_seq = Cardinality(InitTasks)
    /\ score_out = None
    /\ assignment_class = AssignmentClass
    /\ scores_out = None
    /\ exec_in = None
    /\ exec_out = None
    /\ chan_cap \in 1..MaxQueue
    /\ HostInit

QueueNext ==
    \/ \E r \in Requests : SubmitStart(r)
    \/ \E r \in Requests : SubmitCheck(r)
    \/ \E r \in Requests : SubmitRemove(r)
    \/ \E r \in Requests : SubmitMark(r)
    \/ \E r \in Requests : SubmitEnqueue(r)
    \/ QueueStartup
    \/ DispatcherAcquire
    \/ DispatcherSpawn
    \/ \E j \in Requests : WorkerRunOk(j)
    \/ \E j \in Requests : WorkerPersist(j)

QueueSpec == QueueInit /\ [][QueueNext]_vars

\* The scheduler started under every value of NTHREADS, with the channel of
\* main.
StartupInit ==
    /\ now = 0
    /\ users = InitUsers
    /\ user_auth = InitUserAuth
    /\ user_class = InitUserClass
    /\ rng = Cardinality(LoggedIn)
    /\ issued = <<>>
    /\ user_session = {[session_hash |-> Sha512(u), user_id |-> u,
                        expiration |-> MaxTime + OneHour] : u \in LoggedIn}
    /\ user_task_grade = {}
    /\ req = [r \in Requests |-> IdleReq]
    /\ queue = <<>>
    /\ permits = DefaultPermits
    /\ n_threads \in NThreadsWide
    /\ dispatcher = [pc |-> "init", perm |-> FALSE]
    /\ worker = [r \in Requests |-> IdleWorker]
    /\ sent = <<>>
    /\ spawned = <<>>
    /\ login = [l \in Logins |-> IdleLogin]
    /\ classes = Classes
    /\ gate = [g \in Gates |-> IdleGate]
    /\ assignments = InitDeadline
    /\ tasks = InitTasks
    /\ task_seq = Cardinality(InitTasks)
    /\ score_out = None
    /\ assignment_class = AssignmentClass
    /\ scores_out = None
    /\ exec_in = None
    /\ exec_out = None
    /\ chan_cap = I32Max
    /\ HostInit

StartupSpec == StartupInit /\ [][QueueNext]_vars

SandboxNext ==
    \/ SandboxStart
    \/ ExecSpawn
    \/ ChildExit
    \/ ExecTimeout
    \/ ExecOutput
    \/ ImageDrop

SandboxSpec == CourseInit /\ [][SandboxNext]_vars

\* download_submission with the rows a student's submissions leave.
\* --------------------------------------------------------------------- poll

PollFrame ==
    UNCHANGED <<now, authVars, assignments, tasks, task_seq, score_out, assignment_class,
                scores_out, execVars, chan_cap, sandbox, download, fs, user_task_grade,
                req, queue, permits, n_threads, dispatcher, worker, sent, spawned>>

\* The Authorization headers and task path segments a poll can carry; None is
\* a missing header, and a segment that does not parse as i32.
PollHeaders == {None} \cup {Some(Base64Encode(u)) : u \in UserIds}
PollTasks == {None} \cup {Some(t) : t \in TaskIds}

PollAnswer(code) == [poll EXCEPT !.pc = "done", !.status = Some(code)]

\* retrieve_task_score up to the parse of the task id: 403 without the header
\* or without a session row of the token, 400 for an unparsable task id.
PollStart ==
    /\ poll.pc = "idle"
    /\ \E header \in PollHeaders, task \in PollTasks :
         IF header = None \/ SessionRowsOf(Unwrap(header)) = {}
           THEN poll' = PollAnswer(StatusForbidden)
           ELSE IF task = None
             THEN poll' = PollAnswer(StatusBadRequest)
             ELSE poll' = [poll EXCEPT !.pc = "check",
                                       !.user_id = get_user_from_session(Unwrap(header)),
                                       !.task_id = Unwrap(task)]
    /\ PollFrame

\* if submission_in_progress(user_id, task_id) { return 425 }
PollCheck ==
    /\ poll.pc = "check"
    /\ IF submission_in_progress(poll.user_id, poll.task_id)
         THEN poll' = PollAnswer(StatusTooEarly)
         ELSE poll' = [poll EXCEPT !.pc = "read"]
    /\ PollFrame

\* SELECT json_results FROM user_task_grade WHERE user_id = $1 AND task_id = $2
TaskScoreRows(user_id, task_id) ==
    {g \in user_task_grade : g.user_id = user_id /\ g.task_id = task_id}

\* get_task_score and the match on it: no row is Ok(None) -> 404; r.get of a
\* NULL json_results into Vec<u8> panics; otherwise 200 with the results.
PollRead ==
    /\ poll.pc = "read"
    /\ LET rows == TaskScoreRows(poll.user_id, poll.task_id)
       IN IF rows = {}
            THEN poll' = PollAnswer(StatusNotFound)
            ELSE \E r \in rows :
                   IF r.json_results = None
                     THEN poll' = [poll EXCEPT !.pc = "panic"]
                     ELSE poll' = [poll EXCEPT !.pc = "done",
                                               !.status = Some(StatusOk),
                                               !.body = r.json_results]
    /\ PollFrame

DownloadInit ==
    /\ ScoreInit

DownloadNext ==
    \/ \E d \in Downloads : DownloadStart(d)
    \/ \E d \in Downloads : DownloadWrite(d)
    \/ \E d \in Downloads : DownloadZip(d)
    \/ \E d \in Downloads : DownloadRead(d)

DownloadSpec == DownloadInit /\ [][DownloadNext]_vars

\* A poll beside the submit handlers, the dispatcher and the workers.
PollNext ==
    \/ \E r \in Requests : SubmitStart(r)
    \/ \E r \in Requests : SubmitCheck(r)
    \/ \E r \in Requests : SubmitRemove(r)
    \/ \E r \in Requests : SubmitMark(r)
    \/ \E r \in Requests : SubmitEnqueue(r)
    \/ QueueStartup
    \/ DispatcherAcquire
    \/ DispatcherSpawn
    \/ \E j \in Requests : WorkerRunOk(j)
    \/ \E j \in Requests : WorkerPersist(j)
    \/ PollStart
    \/ PollCheck
    \/ PollRead

PollSpec == Init /\ [][PollNext]_vars

\* The tokio runtime keeps polling the dispatcher and every spawned worker, and
\* a sandbox run ends (result, error or panic); clients owe nothing: a handler
\* may be cancelled and no further request need arrive.
Fairness ==
    /\ WF_vars(QueueStartup)
    /\ WF_vars(DispatcherAcquire)
    /\ WF_vars(DispatcherSpawn)
    /\ \A j \in Requests :
          /\ WF_vars(WorkerErr(j) \/ WorkerPanic(j) \/ WorkerRunOk(j))
          /\ WF_vars(WorkerPersist(j))

FairSpec == Init /\ [][Next]_vars /\ Fairness

\* ------------------------------------------------------------------ claims

\* The submit requests made for (user_id, task_id) with a Language header.
RequestsFor(user_id, task_id) ==
    {r \in Requests : /\ req[r].pc # "idle"
                      /\ req[r].lang # None
                      /\ req[r].user_id = user_id
                      /\ req[r].task_id = task_id}

\* The submission of request r has not finished: no worker has ended on it.
NotFinished(r) == worker[r].pc # "ended"

\* C1 (as stated): among the answered requests for one (user, task) whose
\* submissions have not finished, exactly one holds 200 and has enqueued a
\* job and every other one holds 425: while an accepted submission is still
\* unfinished, no other request for its (user, task) is answered anything
\* but 425, however the steps of the handlers interleaved.
C1_ExactlyOneAccepted ==
    \A u \in UserIds, t \in TaskIds :
        LET S == {r \in RequestsFor(u, t) : req[r].pc = "done" /\ NotFinished(r)}
            Ok == {r \in S : req[r].status = Some(StatusOk)}
        IN /\ Cardinality(Ok) <= 1
           /\ \A r \in Ok : \E i \in 1..Len(sent) : sent[i] = r
           /\ Ok # {} => \A r \in S \ Ok : req[r].status = Some(StatusTooEarly)

\* C2 (as stated): a request whose in-progress check runs while a row with
\* grade NULL exists for exactly its (user, task) is answered 425, whatever
\* assignment id and task id its path carries.
C2_InProgressIs425 ==
    [][\A r \in Requests :
          (/\ req[r].pc = "check"
           /\ req'[r].pc \notin {"check", "cancelled"}
           /\ submission_in_progress(req[r].user_id, req[r].task_id))
          => req'[r].status = Some(StatusTooEarly)]_vars

\* The row mark_as_submitted inserted for job j, while it is still there.
RowsOfJob(j) == {g \in user_task_grade : g.submission_zip = j}

InProgressRow(g) == g.grade = None /\ g.error = None

\* C3 (as stated): once a worker has ended because the executor failed, the
\* row of its submission carries a terminal error: it is not in progress.
C3_FailureIsTerminal ==
    \A j \in Requests :
        (worker[j].pc = "ended" /\ worker[j].outcome \in {"err", "panic"})
        => \A g \in RowsOfJob(j) : ~InProgressRow(g)

\* The jobs that were dequeued and whose worker has not finished yet.
Unfinished == {j \in Requests : worker[j].pc \in {"run", "persist"}}

\* C4 (as stated): the jobs dequeued and not yet finished (executor run plus
\* the write of the result) never outnumber the semaphore capacity.
C4_UnfinishedWithinCapacity ==
    dispatcher.pc # "init" => Cardinality(Unfinished) <= Capacity

PermitHolders == {j \in Requests : worker[j].perm}

\* C5: once the dispatcher has set the capacity, available permits + permits
\* held by workers + the permit the dispatcher holds while it waits for a job
\* = the configured capacity, and a worker that has ended holds none.
C5_PermitsConserved ==
    dispatcher.pc # "init" =>
        /\ permits + Cardinality(PermitHolders)
             + (IF dispatcher.perm THEN 1 ELSE 0) = Capacity
        /\ \A j \in Requests : worker[j].pc = "ended" => ~worker[j].perm

\* C5 witness: with one permit configured, one worker ended by a panic and
\* another by an executor error, and the permit is available again.
C5_Witness ==
    /\ n_threads = Some(Usize(1))
    /\ \E j1, j2 \in Requests :
          /\ worker[j1].pc = "ended" /\ worker[j1].outcome = "panic"
          /\ worker[j2].pc = "ended" /\ worker[j2].outcome = "err"
    /\ permits = 1

\* C6: workers are spawned in the order the jobs were sent on the channel:
\* the spawn history is a prefix of the send history.
C6_SpawnOrderIsSendOrder ==
    /\ Len(spawned) <= Len(sent)
    /\ \A i \in 1..Len(spawned) : spawned[i] = sent[i]

\* C6 witness: the second request sent its job first, and both jobs were
\* spawned, in that order.
C6_Witness ==
    /\ sent = <<2, 1>>
    /\ spawned = <<2, 1>>

Enqueued(r) == \E i \in 1..Len(sent) : sent[i] = r
Dequeued(r) == \E i \in 1..Len(spawned) : spawned[i] = r
Terminal(r) == \E g \in RowsOfJob(r) : ~InProgressRow(g)

\* C7 (as stated): with at least one permit, every enqueued job is eventually
\* dequeued and eventually leaves its row in a terminal state.
C7_EnqueuedEndsTerminal ==
    \A r \in Requests :
        (Enqueued(r) /\ Capacity >= 1) ~> (Dequeued(r) /\ Terminal(r))

\* C8 (as stated): the session table holds at most one row per user.
C8_OneSessionPerUser ==
    \A u \in users : Cardinality({s \in user_session : s.user_id = u.id}) <= 1

\* C9 (as stated): once a later login of a user has completed, the token of
\* every earlier login or sign-up of that user differs from the new one and is
\* rejected by valid, is_admin, is_instructor and is_student.
C9_EarlierTokenRejected ==
    \A i, j \in 1..Len(issued) :
        (i < j /\ issued[i].user_id = issued[j].user_id)
        => /\ issued[i].token # issued[j].token
           /\ ~session_exists_and_valid(issued[i].token)
           /\ ~session_is_admin(issued[i].token)
           /\ \A c \in Classes :
                 /\ ~session_is_instructor(c, issued[i].token)
                 /\ ~session_is_student(c, issued[i].token)

\* Every token a login could have handed out so far.
TokensDrawn == {Base64Encode(b) : b \in 1..rng}

\* A session row exists for SHA-512(base64-decode(token)) whose expiration is
\* strictly greater than the current time.
RowStrictlyUnexpired(token) ==
    \E s \in user_session :
        s.session_hash = Sha512(Base64Decode(token)) /\ s.expiration > now

\* C10 (as stated): valid(token) is true exactly when a session row exists for
\* the token's hash with expiration > now; at now = expiration it is false.
C10_ValidIffStrictlyUnexpired ==
    \A token \in TokensDrawn :
        /\ session_exists_and_valid(token) <=> RowStrictlyUnexpired(token)
        /\ validate_token(ValidationObject(None, token)) <=> RowStrictlyUnexpired(token)

\* ------------------------------------------------------ claims on role layers

\* The sessions the logins have inserted, with their issue time.
IssuedSessions ==
    {[bytes |-> login[l].session_id, at |-> login[l].current_time] :
        l \in {l \in Logins : login[l].inserted # None}}

AcceptedSomewhere(token) ==
    \/ session_exists_and_valid(token)
    \/ session_is_admin(token)
    \/ \E c \in Classes : session_is_instructor(c, token) \/ session_is_student(c, token)

\* C11: the row of every issued session carries expiration = issue time + one
\* hour for as long as it exists, whatever requests were made with the token,
\* and more than one hour after the issue no predicate accepts the token.
C11_LifetimeOneHour ==
    \A s \in IssuedSessions :
        LET token == Base64Encode(s.bytes)
        IN /\ \A row \in SessionRowsOf(token) : row.expiration = s.at + OneHour
           /\ now > s.at + OneHour => ~AcceptedSomewhere(token)

\* A request made with a token a login returned was answered 401 more than one
\* hour after the login, the session row still being there.
C11_Witness ==
    \E l \in Logins, g \in Gates :
        /\ login[l].status = Some(StatusOk)
        /\ now > login[l].current_time + OneHour
        /\ gate[g].token = login[l].token
        /\ gate[g].status = Some(StatusUnauthorized)
        /\ SessionRowsOf(Unwrap(login[l].token)) # {}

LayerPcs == {"basic", "student", "student2", "instructor", "admin"}

\* The layer at which connection g stands concludes in this step.
LayerConcludes(g) ==
    gate[g].pc \in LayerPcs /\ gate'[g].pc \in {"done", "panicked"}

\* The header is absent, is not base64, matches no session row, or matches an
\* expired one.
TokenInvalid(header) ==
    \/ header = None
    \/ Unwrap(header)[1] # "b64"
    \/ ~RowStrictlyUnexpired(Unwrap(header))

\* C12 (as stated): whenever a layer concludes a request, the answer is 401
\* if the token is absent, matches no session row or is expired at that
\* moment, and 403 otherwise (the token is valid and lacks the role).
C12_InvalidIs401 ==
    [][\A g \in Gates :
          LayerConcludes(g) =>
              IF TokenInvalid(gate[g].token)
                THEN gate'[g].status = Some(StatusUnauthorized)
                ELSE gate'[g].status = Some(StatusForbidden)]_vars

\* The users a token was handed to.
HolderOf(token) ==
    {u.id : u \in {u \in InitUsers : u.id = Base64Decode(token)}}
        \cup {login[l].id : l \in {l \in Logins : /\ login[l].session_id # 0
                                                  /\ login[l].session_id = Base64Decode(token)}}

IsAdminUser(id) == \E u \in users : u.id = id /\ u.is_admin

\* The token has a session row that is not past its expiration.
LiveRows(token) == {s \in SessionRowsOf(token) : ~(now > s.expiration)}

\* is_admin, is_instructor, is_student as the specification defines them.
IsAdmin(token) == \E s \in LiveRows(token) : IsAdminUser(s.user_id)
IsInstructor(token, class) ==
    \E s \in LiveRows(token) : \E e \in user_class :
        e.user_id = s.user_id /\ e.class_number = class /\ e.is_instructor
IsStudent(token, class) ==
    \E s \in LiveRows(token) : \E e \in user_class :
        e.user_id = s.user_id /\ e.class_number = class /\ ~e.is_instructor

\* C13: on the /admin route a request stands at the handler only with a token
\* handed to an administrator; the admin layer lets a request through exactly
\* when is_admin(token) holds at the check; a request with a live token of a
\* non-admin is answered 403 by the layers, and no step of such a request
\* changes the classes.
C13_AdminGate ==
    [][\A g \in Gates :
          gate[g].route = "admin" /\ gate[g].token # None =>
              LET token == Unwrap(gate[g].token)
              IN /\ gate[g].pc = "handler" =>
                        \E id \in HolderOf(token) : IsAdminUser(id)
                 /\ (gate[g].pc = "admin" /\ gate'[g] # gate[g]) =>
                        (gate'[g].pc = "handler" <=> IsAdmin(token))
                 /\ (/\ LayerConcludes(g)
                     /\ token[1] = "b64"
                     /\ LiveRows(token) # {}
                     /\ ~IsAdmin(token)) =>
                        /\ gate'[g].status = Some(StatusForbidden)
                        /\ classes' = classes]_vars

\* A student's request to /admin/create_class was answered 403 after an
\* administrator's request had created a class.
C13_Witness ==
    /\ "cs2" \in classes
    /\ \E g \in Gates :
          /\ gate[g].route = "admin"
          /\ gate[g].status = Some(StatusForbidden)
          /\ gate[g].token = Some(Base64Encode(1))

\* C14: with a class parameter the student layer lets a request through
\* exactly when is_student or is_instructor holds at its check, is_student
\* being true only for an enrollment with is_instructor = false, so never
\* together with is_instructor; with no class parameter it lets the request
\* through exactly when is_admin holds.
C14_StudentLayer ==
    [][\A g \in Gates :
          /\ \A t \in TokensDrawn, c \in Classes :
                /\ session_is_student(c, t) <=> IsStudent(t, c)
                /\ ~(session_is_student(c, t) /\ session_is_instructor(c, t))
          /\ (gate[g].pc \in {"student", "student2"} /\ gate'[g] # gate[g]
              /\ gate[g].token # None) =>
                LET token == Unwrap(gate[g].token)
                    through == gate'[g].pc = NextStage(gate[g].route, "student")
                    refused == /\ gate'[g].pc = "done"
                               /\ gate'[g].status = Some(StatusForbidden)
                IN IF gate[g].class = None
                     THEN /\ through <=> IsAdmin(token)
                          /\ ~through => refused
                     ELSE LET class == Unwrap(gate[g].class)
                          IN IF gate[g].pc = "student"
                               THEN /\ through <=> IsStudent(token, class)
                                    /\ ~through => gate'[g].pc = "student2"
                               ELSE /\ through <=> IsInstructor(token, class)
                                    /\ ~through => refused]_vars

\* The student layer has let the instructor's request through to the handler
\* of a /student route: is_student was false and is_instructor true.
C14_Witness ==
    \E g \in Gates :
        /\ gate[g].route = "student"
        /\ gate[g].by = "handler"
        /\ gate[g].status = Some(StatusOk)
        /\ gate[g].token = Some(Base64Encode(3))

\* C15 (as stated): no layer of an /instructor/{class_number} or
\* /student/{class_number} route refuses a request that carries a valid admin
\* token.
C15_AdminAdmitted ==
    [][\A g \in Gates :
          (/\ gate[g].route \in {"instructor", "student"}
           /\ gate[g].token # None
           /\ LayerConcludes(g)) =>
              LET token == Unwrap(gate[g].token)
              IN (token[1] = "b64" /\ RowStrictlyUnexpired(token) /\ IsAdmin(token))
                    => gate'[g].status # Some(StatusForbidden)]_vars

\* C16: in every reachable state, whatever the interleaving of submits, worker
\* result writes and assignment updates, user_task_grade holds at most one row
\* for each (user, task).
C16_OneRowPerUserTask ==
    \A u \in UserIds : \A t \in 1..MaxTaskSeq :
        Cardinality({g \in user_task_grade : g.user_id = u /\ g.task_id = t}) <= 1

\* Two submits of one user to one task both reached the INSERT: the second was
\* refused while the first one's row stands.
C16_Witness ==
    \E r \in Requests :
        /\ req[r].pc = "done"
        /\ req[r].status = Some(StatusInternal)
        /\ \E t \in tasks : t.id = req[r].task_id
        /\ \E g \in user_task_grade :
              /\ g.user_id = req[r].user_id
              /\ g.task_id = req[r].task_id
              /\ g.submission_zip # r

HasRow(u, t) == \E g \in user_task_grade : g.user_id = u /\ g.task_id = t

\* C17: a submit deletes the old row of (user, task) and inserts the new one
\* in one atomic step, so no step of the server takes a (user, task) that has
\* a row to a state where it has none, and a failed insert leaves the old row.
C17_ReplaceIsAtomic ==
    [][\A u \in UserIds : \A t \in TaskIds : HasRow(u, t) => HasRow(u, t)']_vars

\* C18: the submission time is captured when the handler starts and kept; the
\* row inserted and the job enqueued carry was_late = (submission_time >=
\* stored deadline); a submission at the deadline is late, and was_late is
\* monotone in the submission time.
C18_WasLate ==
    [][/\ \A r \in Requests :
            /\ (req[r].pc = "idle" /\ req'[r].pc # "idle")
                  => req'[r].submission_time = now
            /\ (req[r].pc # "idle" /\ req'[r].pc # "idle")
                  => req'[r].submission_time = req[r].submission_time
            /\ (req[r].pc = "mark" /\ req'[r].pc = "enqueue")
                  => /\ req'[r].was_late =
                          (req[r].submission_time >= assignments[req[r].assignment_id])
                     /\ \E g \in user_task_grade' \ user_task_grade :
                          /\ g.user_id = req[r].user_id
                          /\ g.task_id = req[r].task_id
                          /\ g.submission_zip = r
                          /\ g.was_late = req'[r].was_late
                     /\ user_task_grade' \ user_task_grade # {}
            /\ (req[r].pc = "enqueue" /\ req'[r].pc # "enqueue")
                  => /\ req'[r].status = Some(StatusOk)
                     /\ queue' = Append(queue, queue'[Len(queue')])
                     /\ queue'[Len(queue')].zip_file = r
                     /\ queue'[Len(queue')].was_late = req[r].was_late
            /\ (req[r].pc = "enqueue") => req'[r].was_late = req[r].was_late
       /\ \A d \in 0..MaxTime : WasLate(d, d)
       /\ \A d \in 0..MaxTime : \A s1 \in 0..MaxTime : \A s2 \in s1..MaxTime :
            WasLate(s1, d) => WasLate(s2, d)
       /\ \A d \in 1..MaxTime : ~WasLate(d - 1, d)]_vars

\* A submission that started exactly at the deadline was accepted after the
\* clock moved on: its row and its job are late.
C18_Witness ==
    \E r \in Requests :
        /\ req[r].pc = "done"
        /\ req[r].status = Some(StatusOk)
        /\ req[r].submission_time = assignments[req[r].assignment_id]
        /\ now > req[r].submission_time
        /\ \E g \in user_task_grade : g.submission_zip = r /\ g.was_late
        /\ \E i \in 1..Len(queue) : queue[i].zip_file = r /\ queue[i].was_late

\* C19: every row with a grade has 0 <= grade <= 1, the grade being passes
\* over recorded outcomes, and one outcome per test of its task; no division
\* by zero is persisted for a task without tests.
C19_GradeInUnitInterval ==
    \A g \in user_task_grade :
        g.grade # None =>
            LET grade == Unwrap(g.grade)
                results == Unwrap(g.json_results)
            IN /\ grade[2] > 0
               /\ 0 <= grade[1]
               /\ grade[1] <= grade[2]
               /\ grade[1] = results.passes
               /\ grade[2] = Len(results.tests)
               /\ \A t \in tasks : t.id = g.task_id => Len(results.tests) = t.n_tests

\* Equality of two exact values with non-zero denominators.
RatEq(a, b) == a[1] * b[2] = b[1] * a[2]

\* grade_t * (0.5 if was_late_t else 1) * n_t, and 0 for a task without a row
\* (or without tests).
C20_Term(user_id, t) ==
    IF t.n_tests = 0 \/ ~HasRow(user_id, t.id) THEN <<0, 1>>
    ELSE LET g == CHOOSE g \in user_task_grade : g.user_id = user_id /\ g.task_id = t.id
         IN <<Unwrap(g.grade)[1] * (IF g.was_late THEN 1 ELSE 2) * t.n_tests,
              Unwrap(g.grade)[2] * 2>>

RECURSIVE C20_Sum(_, _)
C20_Sum(user_id, ts) ==
    IF ts = {} THEN <<0, 1>>
    ELSE LET t == CHOOSE t \in ts : TRUE
             rest == C20_Sum(user_id, ts \ {t})
             term == C20_Term(user_id, t)
         IN <<term[1] * rest[2] + rest[1] * term[2], term[2] * rest[2]>>

RECURSIVE C20_Tests(_)
C20_Tests(ts) ==
    IF ts = {} THEN 0
    ELSE LET t == CHOOSE t \in ts : TRUE IN t.n_tests + C20_Tests(ts \ {t})

\* C20: get_assignment_score returns the sum over the assignment's tasks of
\* grade_t * (0.5 if late else 1) * n_t over the sum of n_t, a task without a
\* row contributing 0; the stored task grade is passes / tests whether or not
\* the submission was late.
C20_WeightedMean ==
    /\ score_out # None =>
          LET o == Unwrap(score_out)
              ts == {t \in tasks : t.assignment_id = o.assignment_id}
              sum == C20_Sum(o.user_id, ts)
              n == C20_Tests(ts)
          IN (~o.panicked /\ o.result # None /\ n > 0)
                => RatEq(Unwrap(o.result), <<sum[1], sum[2] * n>>)
    /\ \A n \in 0..MaxTests : \A outs \in [1..n -> ExecOutcomes] :
          /\ Score(RunTests(outs, TRUE)) = Score(RunTests(outs, FALSE))
          /\ Score(RunTests(outs, TRUE)) =
                <<Cardinality({i \in 1..n : outs[i] = "pass"}), n>>

\* A score came back for a student with a late graded task of non-zero grade
\* and a task with tests but no row.
C20_Witness ==
    /\ score_out # None
    /\ LET o == Unwrap(score_out)
       IN /\ ~o.panicked
          /\ o.result # None
          /\ Unwrap(o.result)[1] > 0
          /\ \E g \in user_task_grade :
                /\ g.user_id = o.user_id
                /\ g.was_late
                /\ g.grade # None
                /\ Unwrap(g.grade)[1] > 0
          /\ \E t \in tasks : t.n_tests > 0 /\ ~HasRow(o.user_id, t.id)

\* Number of entries of the answer that belong to user u.
C21_Entries(u) ==
    Cardinality({i \in 1..Len(Unwrap(scores_out).grades) :
                    Unwrap(scores_out).grades[i].user_id = u})

\* C21: get_assignment_scores returns exactly one entry per non-instructor
\* student enrolled in at least one class that has the assignment, and none for
\* anyone else: a student of several such classes appears once.
C21_OneEntryPerStudent ==
    (scores_out # None /\ ~Unwrap(scores_out).panicked) =>
        \A u \in UserIds :
            C21_Entries(u) =
                IF \E c \in user_class : \E ac \in assignment_class :
                      /\ c.user_id = u
                      /\ ~c.is_instructor
                      /\ ac.class_number = c.class_number
                      /\ ac.assignment_id = Unwrap(scores_out).assignment_id
                  THEN 1 ELSE 0

\* Two (test, sandbox answer) pairs a reader of the records of a private test
\* may not tell apart: same name, same visibility, same status, and the same
\* input, expected output and produced output when the test is public.
C22_SameToReader(t1, r1, t2, r2, was_late) ==
    /\ t1.test_name = t2.test_name
    /\ t1.public = t2.public
    /\ RunOneTest(t1, r1, was_late).test.status = RunOneTest(t2, r2, was_late).test.status
    /\ t1.public => (t1 = t2 /\ r1 = r2)

\* C22: every recorded outcome, whatever its status, carries the (input,
\* expected, found) triple exactly when its test is public, and a run that
\* differs from this one only in the input, expected output or produced output
\* of a private test, with the same status, builds the same result records.
C22_PrivateIoNotRecorded ==
    (exec_out # None) =>
        LET in == Unwrap(exec_in)
            out == Unwrap(exec_out)
        IN /\ Len(out.tests) = Len(in.tests)
           /\ \A i \in 1..Len(in.tests) :
                /\ (out.tests[i].input_output # None) <=> in.tests[i].public
                /\ out.tests[i].status \in {"PASS", "LATE", "FAIL", "TIMED OUT", "ERR"}
           /\ \A i \in 1..Len(in.tests) : \A t \in ExecTestSet : \A r \in ExecRanSet :
                C22_SameToReader(in.tests[i], in.rans[i], t, r, in.was_late)
                    => RunContainer([in.tests EXCEPT ![i] = t],
                                    [in.rans EXCEPT ![i] = r], in.was_late) = out

\* A run is recorded with a private and a public test, one of each timed out
\* or failed: the public record carries its triple, the private one nothing.
C22_Witness ==
    /\ exec_out # None
    /\ \E i, j \in 1..Len(Unwrap(exec_in).tests) :
          /\ ~Unwrap(exec_in).tests[i].public
          /\ Unwrap(exec_out).tests[i].status = "FAIL"
          /\ Unwrap(exec_out).tests[i].input_output = None
          /\ Unwrap(exec_in).tests[j].public
          /\ Unwrap(exec_out).tests[j].status = "TIMED OUT"
          /\ Unwrap(exec_out).tests[j].input_output # None

\* C23: with no free capacity in the scheduler queue the submit handler does
\* not wait for capacity: its enqueue step can always be taken (and answers
\* 500), so a handler is never suspended at the enqueue step.
C23_EnqueueDoesNotWait ==
    \A r \in Requests :
        (req[r].pc = "enqueue" /\ Len(queue) >= chan_cap) => ENABLED SubmitEnqueue(r)

\* C24: once a test has been reported as timed out its sandbox process is no
\* longer running: the executor kills it before it records the timeout and
\* moves on.
C24_TimedOutIsKilled ==
    \A k \in 1..Len(sandbox.reports) :
        sandbox.reports[k] = "TIMED OUT" => sandbox.procs[k] # "running"

\* C25: the workers that are running at the same time use pairwise different
\* workspace directories.
C25_WorkdirsDistinct ==
    \A j1, j2 \in Requests :
        (j1 # j2 /\ worker[j1].pc = "run" /\ worker[j2].pc = "run")
            => Workdir(Unwrap(worker[j1].container)) # Workdir(Unwrap(worker[j2].container))

\* C26: a download_submission call that has created its temporary directory
\* leaves none behind, on whichever path it ends: once every call using a
\* directory has ended, the directory does not exist.
C26_TempDirRemoved ==
    \A d \in Downloads :
        (download[d].made /\ download[d].pc \in {"done", "panicked"})
            => \/ DownloadDir(d) \notin fs
               \/ \E e \in Downloads :
                     /\ download[e].made
                     /\ download[e].pc \notin {"done", "panicked"}
                     /\ DownloadDir(e) = DownloadDir(d)

\* C27: at every successful login the token returned, base64-decoded and
\* hashed with SHA-512, is the session_hash of the row that login inserted, so
\* get_user_from_session on the token gives the user whose credentials were
\* presented; the table holds digests only, never the bytes or the token.
C27_TokenRoundTrip ==
    [][\A l \in Logins :
          (login[l].pc = "commit" /\ login'[l].pc = "done")
            => LET token == Unwrap(login'[l].token)
                   row == Unwrap(login[l].inserted)
               IN /\ login'[l].status = Some(StatusOk)
                  /\ Sha512(Base64Decode(token)) = row.session_hash
                  /\ row \in user_session'
                  /\ \E tok \in {Base64Encode(x) : x \in 0..rng} \cup {Base64EncodeOther(rng)} :
                        /\ tok = token
                        /\ get_user_from_session(tok)' = login[l].id
                  /\ \E a \in user_auth :
                        /\ a.user_id = login[l].id
                        /\ a.hash = create_hash(login[l].user_name, login[l].pass)
                  /\ \A s \in user_session' :
                        /\ s.session_hash[1] = "sha512"
                        /\ s.session_hash # token]_vars

\* Two logins have been answered with tokens, both of which lead back to the
\* users who logged in.
C27_Witness ==
    \E l1, l2 \in Logins :
        /\ l1 # l2
        /\ login[l1].pc = "done" /\ login[l1].status = Some(StatusOk)
        /\ login[l2].pc = "done" /\ login[l2].status = Some(StatusOk)
        /\ login[l1].id # login[l2].id
        /\ SessionRowsOf(Unwrap(login[l1].token)) # {}
        /\ get_user_from_session(Unwrap(login[l1].token)) = login[l1].id
        /\ SessionRowsOf(Unwrap(login[l2].token)) # {}
        /\ get_user_from_session(Unwrap(login[l2].token)) = login[l2].id

\* C28: whatever sign-ups were attempted and wherever they failed, every users
\* row has exactly one user_auth row and every user_auth row refers to a users
\* row: a sign-up whose credential insert fails leaves no users row.
C28_UserHasOneCredential ==
    /\ \A u \in users : Cardinality({a \in user_auth : a.user_id = u.id}) = 1
    /\ \A a \in user_auth : \E u \in users : u.id = a.user_id

\* A sign-up under a new name was refused at the credential insert, after its
\* users insert, and another sign-up went through.
C28_Witness ==
    /\ \E l \in Logins :
          /\ login[l].op = "signup"
          /\ login[l].status = Some(StatusInternal)
          /\ login[l].id # 0
          /\ ~\E u \in users : u.user_name = login[l].user_name
    /\ \E u \in users : u.user_name = NameCd

\* C29: the steps of a submit request that ends with 400 (no Language header)
\* or 425 (submission in progress) leave user_task_grade and the scheduler
\* queue as they were: such a request is answered from its first step (400)
\* or from its in-progress check (425), before any delete, insert or send.
C29_RejectedLeavesState ==
    [][\A r \in Requests :
          /\ (req'[r] # req[r] /\ req'[r].pc = "done"
                /\ req'[r].status \in {Some(StatusBadRequest), Some(StatusTooEarly)})
               => /\ user_task_grade' = user_task_grade
                  /\ queue' = queue
                  /\ sent' = sent
                  /\ req'[r].status = Some(StatusBadRequest) => req[r].pc = "idle"
                  /\ req'[r].status = Some(StatusTooEarly) => req[r].pc = "check"
          /\ (req'[r] # req[r] /\ req'[r].pc = "check")
               => /\ req[r].pc = "idle"
                  /\ user_task_grade' = user_task_grade
                  /\ queue' = queue
                  /\ sent' = sent]_vars

\* A submit was answered 425 while the row of an earlier submit is in progress
\* and its job has been sent.
C29_Witness ==
    \E r \in Requests :
        /\ req[r].pc = "done"
        /\ req[r].status = Some(StatusTooEarly)
        /\ \E g \in user_task_grade :
              g.user_id = req[r].user_id /\ g.grade = None /\ g.submission_zip # r
        /\ sent # <<>>

\* C30: retrieve_task_score answers by the row of (user, task) it finds: 425
\* when the row is in progress, 404 when there is no row, 200 with the stored
\* results when the row is completed; this holds at the in-progress check and
\* at the later read of the results, whatever was submitted between the two.
C30_PollAnswersByRow ==
    [][(poll.pc \in {"check", "read"} /\ poll'.pc \notin {"check", "read"})
        => LET rows == TaskScoreRows(poll.user_id, poll.task_id)
           IN /\ poll'.pc = "done"
              /\ rows = {} => poll'.status = Some(StatusNotFound)
              /\ (\E g \in rows : g.grade = None)
                   => poll'.status = Some(StatusTooEarly)
              /\ (rows # {} /\ \A g \in rows : g.grade # None)
                   => /\ poll'.status = Some(StatusOk)
                      /\ \E g \in rows : poll'.body = g.json_results]_vars

C32_PermitsAreNThreads ==
    (dispatcher.pc = "acquire" /\ spawned = <<>>)
        => IF n_threads = None THEN permits = DefaultPermits
           ELSE /\ Unwrap(n_threads)[1] = 0
                /\ permits = Unwrap(n_threads)[2]

\* C33: the result stored in a user_task_grade row belongs to the archive of
\* that row: whenever a worker writes its json_results and grade, every row it
\* changes holds the archive of the job that worker ran, never the archive of
\* a later submission that replaced the row while the job was in flight.
C33_ResultBelongsToArchive ==
    [][\A j \in Requests :
          (worker[j].pc = "persist" /\ worker'[j].pc = "ended")
              => \A g \in user_task_grade' \ user_task_grade :
                     g.submission_zip = Unwrap(worker[j].container).zip_file]_vars

\* The jobs of a row: the entries of its (user, task, archive) waiting in the
\* queue, held by a worker that has not ended, or about to be sent by the
\* handler that inserted the row.
C34_JobsOf(g) ==
    {<<"queue", i>> : i \in {i \in 1..Len(queue) :
          /\ queue[i].user_id = g.user_id
          /\ queue[i].task_id = g.task_id
          /\ queue[i].zip_file = g.submission_zip}}
    \cup {<<"worker", j>> : j \in {j \in Requests :
          /\ worker[j].pc \in {"run", "persist"}
          /\ Unwrap(worker[j].container).user_id = g.user_id
          /\ Unwrap(worker[j].container).task_id = g.task_id
          /\ Unwrap(worker[j].container).zip_file = g.submission_zip}}
    \cup {<<"handler", r>> : r \in {r \in Requests :
          /\ req[r].pc = "enqueue"
          /\ req[r].user_id = g.user_id
          /\ req[r].task_id = g.task_id
          /\ r = g.submission_zip}}

\* C34: every user_task_grade row in progress (grade NULL, no error recorded)
\* has exactly one job, waiting in the queue or run by a live worker (or still
\* in the hands of the handler that is about to send it).
C34_InProgressHasJob ==
    \A g \in user_task_grade :
        (g.grade = None /\ g.error = None) => Cardinality(C34_JobsOf(g)) = 1

\* C35: a role predicate that is true implies validity at the same instant,
\* for every token, class and time, the instant now = expiration included:
\* session_is_admin, session_is_instructor and session_is_student imply
\* session_exists_and_valid, and validate_admin, validate_instructor and
\* validate_student imply validate_token.
C35_RoleImpliesValid ==
    \A b \in 1..rng, c \in Classes :
        LET token == Base64Encode(b)
            validation == ValidationObject(Some(c), token)
        IN /\ (\/ session_is_admin(token)
               \/ session_is_instructor(c, token)
               \/ session_is_student(c, token))
                => session_exists_and_valid(token)
           /\ (\/ validate_admin(validation)
               \/ validate_instructor(validation)
               \/ validate_student(validation))
                => validate_token(validation)

\* C36: a login or sign-up answered 200 has issued its session for the user
\* whose user_name was presented, and for no other user.
C36_SessionForPresentedName ==
    \A l \in Logins :
        (login[l].pc = "done" /\ login[l].status = Some(StatusOk))
            => \E u \in users :
                  /\ u.id = login[l].id
                  /\ u.user_name = login[l].user_name

\* The ids of the tasks rows of an assignment.
C37_TaskIdsOf(table, a) == {t.id : t \in {t \in table : t.assignment_id = a}}

C38_ScoreWellDefined ==
    /\ score_out # None
         => /\ ~Unwrap(score_out).panicked
            /\ Unwrap(score_out).result # None
                 => Unwrap(Unwrap(score_out).result)[2] # 0
    /\ scores_out # None
         => /\ ~Unwrap(scores_out).panicked
            /\ \A i \in 1..Len(Unwrap(scores_out).grades) :
                  Unwrap(scores_out).grades[i].score[2] # 0

\* C39: get_assignment_score(user, assignment) returns a grade only when the
\* user is enrolled, not as an instructor, in a class the assignment is given
\* to; a user whose non-instructor enrollments are all in classes without the
\* assignment gets none.
C39_ScoreOnlyForEnrolled ==
    (score_out # None /\ Unwrap(score_out).result # None)
        => \E c \in user_class, ac \in assignment_class :
              /\ c.user_id = Unwrap(score_out).user_id
              /\ ~c.is_instructor
              /\ ac.class_number = c.class_number
              /\ ac.assignment_id = Unwrap(score_out).assignment_id

====
